---- MODULE Spec2Model ----
(***************************************************************************)
(* A model of the payroll engine of phalanx-software/payroll:              *)
(*   - the rate tables of tax_table.py (loading, validation, lookup),      *)
(*   - the calculation variants and the memoizing Calculator of            *)
(*     calculation.py,                                                     *)
(*   - the batch driver Payroll.execute / Payroll.payments of payroll.py.  *)
(*                                                                         *)
(* Money is an integer number of cents.  Where the code keeps more than    *)
(* two decimals before an explicit round() the model keeps a scaled        *)
(* integer and rounds where the code rounds (ROUND_HALF_EVEN, the default  *)
(* of the decimal context used by Money.round and round(Decimal, n)).      *)
(* basic_pay_part_time is hours x hourly wage and is never rounded: that   *)
(* one item is an integer number of thousandths of a euro.                 *)
(***************************************************************************)
EXTENDS Integers, Sequences, FiniteSets, TLC

VARIABLES
    \* ---- rate tables (tax_table.py) ----
    file,           \* the rows of the csv file the last table was built from
    table,          \* the table object the constructor produced, or its failure
    applied,        \* the last apply() call on that table and what it returned
    \* ---- Calculator (calculation.py) ----
    calculations,   \* Calculator.__calculations: name -> variant
    context,        \* per Calculator: the payment and the historical Items
    calc,           \* per Calculator: __values, __projections (+ call counters)
    outcome,        \* the last value_of / projection_of request and its result
    requests,       \* number of requests the client has made
    \* ---- batch driver (payroll.py) ----
    employees,      \* the employee store, in the order glob() yields the files
    stored,         \* the payment store: the payments written so far
    run,            \* the last Payroll.payments(year, month) run
    \* ---- Items (line_item.py) ----
    operands,       \* two Items objects, a and b
    added           \* what a + b returned or raised

tblVars   == <<file, table, applied>>
calcVars  == <<calculations, context, calc, outcome, requests>>
batchVars == <<employees, stored, run>>
itemVars  == <<operands, added>>
vars      == <<file, table, applied,
               calculations, context, calc, outcome, requests,
               employees, stored, run, operands, added>>

\* Optional[Money]: None is the empty sequence, a value x is <<x>>
None == << >>
Some(x) == <<x>>
ValueIn(opt) == opt[1]

\* Optional[date]: an open end_date
NoDate == 0

(***************************************************************************)
(* Decimal rounding                                                        *)
(***************************************************************************)

\* n / d rounded to the nearest integer, ties to the even one (ROUND_HALF_EVEN).
RoundHalfEven(n, d) ==
    LET q == n \div d
        r == n % d
    IN  IF 2 * r < d THEN q
        ELSE IF 2 * r > d THEN q + 1
        ELSE IF q % 2 = 0 THEN q ELSE q + 1

Max(a, b) == IF a >= b THEN a ELSE b
Min(a, b) == IF a <= b THEN a ELSE b
Abs(a) == IF a >= 0 THEN a ELSE 0 - a

(***************************************************************************)
(* Dates: a date is its proleptic Gregorian ordinal (date.toordinal()).    *)
(***************************************************************************)

IsLeap(y) == (y % 4 = 0) /\ ((y % 100 # 0) \/ (y % 400 = 0))

DaysInMonth(y, m) ==
    IF m = 2 THEN (IF IsLeap(y) THEN 29 ELSE 28)
    ELSE IF m \in {4, 6, 9, 11} THEN 30 ELSE 31

RECURSIVE DaysBeforeMonth(_, _)
DaysBeforeMonth(y, m) ==
    IF m = 1 THEN 0 ELSE DaysBeforeMonth(y, m - 1) + DaysInMonth(y, m - 1)

DaysBeforeYear(y) ==
    (y - 1) * 365 + ((y - 1) \div 4) - ((y - 1) \div 100) + ((y - 1) \div 400)

\* datetime.date(y, m, d).toordinal()
Date(y, m, d) == DaysBeforeYear(y) + DaysBeforeMonth(y, m) + d

\* date.weekday(): 0 is Monday
Weekday(date) == (date - 1) % 7

\* date(year, month, calendar.monthrange(year, month)[1])
MonthEnd(y, m) == Date(y, m, DaysInMonth(y, m))

\* date(y, m, d) - relativedelta(months=6): the day is clipped to the
\* length of the target month
SixMonthsBefore(y, m, d) ==
    LET ty == IF m > 6 THEN y ELSE y - 1
        tm == IF m > 6 THEN m - 6 ELSE m + 6
    IN  Date(ty, tm, Min(d, DaysInMonth(ty, tm)))

count_days_between_dates(d1, d2) == Abs(d2 - d1)

\* the months left with the month itself counted in
months_left_in_year_with_month(from_month) == Max(0, 13 - from_month)

months_left_in_year(from_month) == Max(0, 12 - from_month)

\* a Period is [start, end]; an open end is NoDate
date_within_period(date, period) == period.start <= date /\ date <= period.end

\* the Mondays rrule(WEEKLY, byweekday=MO, dtstart, until) yields
MondaysBetween(first, last) == Cardinality({d \in first..last : Weekday(d) = 0})

\* count_mondays with the recurrence started on the day after the first one
count_mondays_after_first_day(employee_period, payment_period) ==
    LET start == Max(employee_period.start, payment_period.start)
        end   == IF employee_period.end # NoDate
                 THEN Min(employee_period.end, payment_period.end)
                 ELSE payment_period.end
    IN  MondaysBetween(start + 1, end)

count_mondays(employee_period, payment_period) ==
    LET start == Max(employee_period.start, payment_period.start)
        end   == IF employee_period.end # NoDate
                 THEN Min(employee_period.end, payment_period.end)
                 ELSE payment_period.end
    IN  MondaysBetween(start, end)

(***************************************************************************)
(* Rate tables (tax_table.py)                                              *)
(*                                                                         *)
(* A csv row holds decimals as authored.  Rows of the model hold:          *)
(*   upto      whole euros (-1 is the "unbounded" sentinel),                *)
(*   rate      hundredths (0.15 is 15; a Fixed amount of 1.50 is 150),     *)
(*   subtract, maximum, bonus   cents.                                     *)
(* A pydantic validator that RETURNS a ValueError instead of raising it    *)
(* makes the returned exception object the field's value: the model keeps  *)
(* such a field as kind "ValueError".                                      *)
(***************************************************************************)

Dec(v)      == [kind |-> "Decimal", v |-> v]
Infinity    == [kind |-> "Infinity", v |-> 0]
ValueErrorObject == [kind |-> "ValueError", v |-> 0]

\* what a call returns: a Money (amount in 1/10000 euro, "e4"), None, or an
\* exception that propagates to the caller
Returned(e4) == [kind |-> "Money", e4 |-> e4, exc |-> ""]
ReturnedNone == [kind |-> "None", e4 |-> 0, exc |-> ""]
Raised(exc)  == [kind |-> "raise", e4 |-> 0, exc |-> exc]

validate_monetary_value(n) == n >= 0

\* ---- IncomeTaxEntry ----
IncomeTaxEntry_validate_upto(v) ==
    IF v = -1 THEN Infinity
    ELSE IF v < 0 THEN ValueErrorObject      \* "return ValueError(...)"
    ELSE Dec(v)

IncomeTaxEntry_validate_subtract(v) == validate_monetary_value(v)

IncomeTaxEntry_validate_rate(v) == 0 <= v /\ v <= 100

\* IncomeTaxEntry(**row): TRUE when the constructor raises ValidationError
IncomeTaxEntryFails(row) ==
    ~IncomeTaxEntry_validate_rate(row.rate) \/ ~IncomeTaxEntry_validate_subtract(row.subtract)

IncomeTaxEntry(row) ==
    [upto |-> IncomeTaxEntry_validate_upto(row.upto), rate |-> row.rate, subtract |-> row.subtract]

\* ---- CategoryRateEntry ----
SocialSecurityCategory == {"A", "B", "C/D #1", "C/D #2", "E", "F"}
RateType == {"Fixed", "Rate"}

CategoryRateEntry_validate_rate(rate_type, v) ==
    IF rate_type = "Fixed"
    THEN (IF ~(v >= 0) THEN ValueErrorObject ELSE Dec(v))    \* "return ValueError(...)"
    ELSE Dec(v)

\* CategoryRateEntry(**row): "" when the row is accepted, else the exception:
\* a failed rate_type is missing from `values`, so the rate validator's
\* values['rate_type'] raises KeyError before pydantic reports anything
CategoryRateEntryFails(row) ==
    IF row.rate_type \notin RateType THEN "KeyError"
    ELSE IF row.category \notin SocialSecurityCategory THEN "ValidationError"
    ELSE IF row.rate_type = "Rate" /\ ~(0 <= row.rate /\ row.rate <= 100) THEN "ValidationError"
    ELSE IF ~validate_monetary_value(row.maximum) THEN "ValidationError"
    ELSE ""

CategoryRateEntry(row) ==
    [category |-> row.category, rate_type |-> row.rate_type,
     rate |-> CategoryRateEntry_validate_rate(row.rate_type, row.rate),
     maximum |-> row.maximum]

\* ---- MonetaryBonusEntry ----
MonthNames == <<"january", "february", "march", "april", "may", "june", "july",
                "august", "september", "october", "november", "december">>

\* options.index(v) + 1
MonthIndex(v) == CHOOSE i \in 1..12 : MonthNames[i] = v

\* MonetaryBonusEntry(**row): an unknown month makes the pre-validator return
\* a ValueError object, which the int field then rejects
MonetaryBonusEntryFails(row) ==
    (\A i \in 1..12 : MonthNames[i] # row.month) \/ ~validate_monetary_value(row.bonus)

MonetaryBonusEntry(row) == [month |-> MonthIndex(row.month), bonus |-> row.bonus]

\* ---- load ----
Loaded(kind, entries) == [kind |-> kind, status |-> "loaded", entries |-> entries]
LoadFailed(kind, exc) == [kind |-> kind, status |-> exc, entries |-> << >>]

IncomeTaxTable_load(rows) ==
    IF \E i \in 1..Len(rows) : IncomeTaxEntryFails(rows[i])
    THEN LoadFailed("IncomeTaxTable", "ValidationError")
    ELSE Loaded("IncomeTaxTable", [i \in 1..Len(rows) |-> IncomeTaxEntry(rows[i])])

CategoryRateTable_load(rows) ==
    IF \E i \in 1..Len(rows) : CategoryRateEntryFails(rows[i]) # ""
    THEN LET first == CHOOSE i \in 1..Len(rows) :
                         /\ CategoryRateEntryFails(rows[i]) # ""
                         /\ \A j \in 1..(i - 1) : CategoryRateEntryFails(rows[j]) = ""
         IN  LoadFailed("CategoryRateTable", CategoryRateEntryFails(rows[first]))
    ELSE Loaded("CategoryRateTable", [i \in 1..Len(rows) |-> CategoryRateEntry(rows[i])])

MonetaryBonusTable_load(rows) ==
    IF \E i \in 1..Len(rows) : MonetaryBonusEntryFails(rows[i])
    THEN LoadFailed("MonetaryBonusTable", "ValidationError")
    ELSE Loaded("MonetaryBonusTable", [i \in 1..Len(rows) |-> MonetaryBonusEntry(rows[i])])

\* ---- apply ----
\* IncomeTaxTable.apply(taxable), taxable in cents: the scan stops at the
\* first entry whose comparison succeeds or raises
RECURSIVE IncomeTaxTable_applyFrom(_, _, _)
IncomeTaxTable_applyFrom(entries, i, taxable) ==
    IF i > Len(entries) THEN Returned(0)
    ELSE LET entry == entries[i]
         IN  IF entry.upto.kind = "ValueError" THEN Raised("TypeError")
             ELSE IF entry.upto.kind = "Infinity" \/ entry.upto.v * 100 >= taxable
                  THEN Returned(taxable * entry.rate - entry.subtract * 100)
                  ELSE IncomeTaxTable_applyFrom(entries, i + 1, taxable)

IncomeTaxTable_apply(entries, taxable) == IncomeTaxTable_applyFrom(entries, 1, taxable)

\* CategoryRateTable.apply(category, weekly_wage), weekly_wage in cents
RECURSIVE CategoryRateTable_applyFrom(_, _, _, _)
CategoryRateTable_applyFrom(entries, i, category, weekly_wage) ==
    IF i > Len(entries) THEN ReturnedNone
    ELSE LET entry == entries[i]
         IN  IF category = entry.category
             THEN IF entry.rate_type = "Fixed"
                  THEN IF entry.rate.kind = "ValueError" THEN Raised("InvalidOperation")
                       ELSE Returned(Min(entry.rate.v * 100, entry.maximum * 100))
                  ELSE Returned(Min(weekly_wage * entry.rate.v, entry.maximum * 100))
             ELSE CategoryRateTable_applyFrom(entries, i + 1, category, weekly_wage)

CategoryRateTable_apply(entries, category, weekly_wage) ==
    CategoryRateTable_applyFrom(entries, 1, category, weekly_wage)


(***************************************************************************)
(* Employee, Payment, Items (employee.py, payment.py, line_item.py)        *)
(***************************************************************************)

ItemNames == <<"prior_gross_emoluments", "basic_pay_full_time", "basic_pay_part_time",
               "manual_adjustments", "statutory_bonus", "total_taxable_gross_emoluments",
               "prior_income_tax_deduction", "income_tax_full_time", "income_tax_part_time",
               "social_security_contribution_employee", "social_security_contribution_employer",
               "total_deductions", "maternity_fund_contribution_employer", "reimbursements",
               "net_pay", "tax_due">>

Names == {ItemNames[i] : i \in 1..Len(ItemNames)}

\* Items(): every field None
Items == [n \in Names |-> None]

\* Items.zero()
Items_zero == [n \in Names |-> 0]

\* Items.__add__ with the tax_due of the right operand left out
Items_add_without_tax_due(a, b) ==
    [n \in Names |-> IF n = "tax_due" THEN a[n] ELSE a[n] + b[n]]

\* Items.__add__ on two fully set Items
Items_add(a, b) == [n \in Names |-> a[n] + b[n]]

\* an Items object whose line items are all set, from its amounts, and back
SetItems(amounts) == [n \in Names |-> Some(amounts[n])]
AmountsOf(items) == [n \in Names |-> ValueIn(items[n])]
IsSet(items) == \A n \in Names : items[n] # None

\* Items.__add__ on any two Items: Money + None, None + Money and
\* None + None raise TypeError; otherwise a new Items is built
Items_plus(a, b) ==
    IF IsSet(a) /\ IsSet(b)
    THEN [exc |-> "", items |-> SetItems(Items_add(AmountsOf(a), AmountsOf(b)))]
    ELSE [exc |-> "TypeError", items |-> Items]

\* pays_social_security_contributions true whatever the tax computation
Employee_pays_social_security_contributions_always(employee) == employee.start_date > NoDate

Employee_pays_social_security_contributions(employee) == employee.tax_computation # "parttime"

\* Money(gross_annual_salary / 12, EUR).round(2), in cents
Employee_monthly_wage(employee) == RoundHalfEven(employee.gross_annual_salary, 12)

\* Money(gross_annual_salary / 52, EUR).round(2), in cents
Employee_weekly_wage(employee) == RoundHalfEven(employee.gross_annual_salary, 52)

Employee_employment_period(employee) == [start |-> employee.start_date, end |-> employee.end_date]

\* time_worked_in_period with the last day of the overlap left out
Employee_time_worked_in_period_exclusive(employee, payroll_period) ==
    IF employee.start_date > payroll_period.end THEN 0
    ELSE IF employee.end_date # NoDate /\ employee.end_date < payroll_period.start THEN 0
    ELSE LET last == IF employee.end_date # NoDate
                     THEN Min(employee.end_date, payroll_period.end)
                     ELSE payroll_period.end
         IN  RoundHalfEven(
                 count_days_between_dates(last, Max(employee.start_date, payroll_period.start))
                     * 100,
                 count_days_between_dates(payroll_period.end, payroll_period.start) + 1)

\* Employee.time_worked_in_period, in hundredths of the period.  The code
\* divides as floats before it rounds; for the 28 to 31 days of a month no
\* quotient is within a float's error of a tie, so the exact quotient rounds
\* the same way.
Employee_time_worked_in_period(employee, payroll_period) ==
    IF employee.start_date > payroll_period.end THEN 0
    ELSE IF employee.end_date # NoDate /\ employee.end_date < payroll_period.start THEN 0
    ELSE LET numerator ==
                 IF employee.end_date # NoDate
                 THEN count_days_between_dates(Min(employee.end_date, payroll_period.end),
                                               Max(employee.start_date, payroll_period.start)) + 1
                 ELSE count_days_between_dates(payroll_period.end,
                                               Max(employee.start_date, payroll_period.start)) + 1
             denominator == count_days_between_dates(payroll_period.end, payroll_period.start) + 1
         IN  RoundHalfEven(numerator * 100, denominator)

\* Period(Start=date(year, month, 1), End=date(year, month, monthrange(year, month)[1]))
MonthPeriod(year, month) == [start |-> Date(year, month, 1), end |-> MonthEnd(year, month)]

\* the Payment Payroll.execute builds for an employee and a month
Payment(employee, year, month) ==
    LET period == MonthPeriod(year, month)
    IN  [employee |-> employee, period |-> period, year |-> year, month |-> month,
         time_worked |-> Employee_time_worked_in_period(employee, period),
         number_of_mondays |-> count_mondays(Employee_employment_period(employee), period),
         monthly_wage |-> Employee_monthly_wage(employee),
         weekly_wage |-> Employee_weekly_wage(employee),
         part_time |-> (employee.tax_computation = "parttime")]

\* first_for_employee true for every payment of the employee
Payment_first_for_employee_always(payment) == payment.employee.start_date <= payment.period.end

Payment_first_for_employee(payment) ==
    date_within_period(payment.employee.start_date, payment.period)

(***************************************************************************)
(* Transactions (transactions.py): a store is the sequence of records      *)
(* found under <path>/<employee>/<year>/*.yml                              *)
(***************************************************************************)

\* A file that does not load as a record carries, in place of the fields of
\* the record, the exception its loading raises: ValidationError when
\* pydantic rejects the fields (a missing field, a value of the wrong type),
\* another exception when yaml.load itself fails (money_constructor raises
\* ValueError on a !money scalar without a currency).
Unparsed(employee, year, raises) == [employee |-> employee, year |-> year, raises |-> raises]

\* FilesystemTransactionStore.stream(employee_key, year, date_within_period(...)):
\* only ValidationError is caught, file by file; the record is then skipped
stream(store, employee_key, year, period) ==
    SelectSeq(store, LAMBDA t : /\ t.employee = employee_key
                                /\ t.year = year
                                /\ "raises" \notin DOMAIN t
                                /\ date_within_period(t.dated, period))

\* the exception that leaves stream while the caller iterates over it
stream_raises(store, employee_key, year) ==
    LET escaping == SelectSeq(store, LAMBDA t : /\ t.employee = employee_key
                                                /\ t.year = year
                                                /\ "raises" \in DOMAIN t
                                                /\ t.raises # "ValidationError")
    IN  IF escaping = << >> THEN "" ELSE Head(escaping).raises

RECURSIVE SumValues(_)
SumValues(ts) == IF ts = << >> THEN 0 ELSE Head(ts).value + SumValues(Tail(ts))

\* WorkLog.hours is a Decimal, kept in tenths of an hour; the hourly wage is
\* in cents, so the product is in thousandths of a euro
RECURSIVE SumWorked(_)
SumWorked(ts) ==
    IF ts = << >> THEN 0 ELSE Head(ts).hours * Head(ts).hourly_wage + SumWorked(Tail(ts))


(***************************************************************************)
(* Calculation variants (calculation.py)                                   *)
(*                                                                         *)
(* A variant's compute / project is modelled by                            *)
(*   - the value_of / projection_of calls it makes, in evaluation order,   *)
(*     before and after the point where it can raise,                      *)
(*   - the exception it raises there, if any,                              *)
(*   - its result, from the resolved dependencies V (values) and P         *)
(*     (projections), the payment and the historical Items.                *)
(* env is [reg, payment, historical]: what Calculator.__init__ receives.   *)
(***************************************************************************)

Value(name)      == [name |-> name, kind |-> "value"]
Projection(name) == [name |-> name, kind |-> "projection"]

\* _PART_TIME_TAX_RATE, in hundredths
PartTimeTaxRate == 15

\* n / d rounded to the nearest integer, ties toward zero: what rounding
\* x * Decimal(0.15) gives, Decimal(0.15) being the binary double just below 0.15
RoundTiesTowardZero(n, d) ==
    LET q == n \div d
        r == n % d
    IN  IF 2 * r < d THEN q
        ELSE IF 2 * r > d THEN q + 1
        ELSE IF n >= 0 THEN q ELSE q + 1

\* ---- PriorGrossEmoluments ----
PriorGrossEmoluments_compute(payment) ==
    IF Payment_first_for_employee(payment)
    THEN payment.employee.prior_tax_information.gross_annual_emoluments
    ELSE 0

\* ---- ManualAdjustments, Reimbursements ----
ManualAdjustments_compute(store, payment) ==
    SumValues(stream(store, payment.employee.key, payment.year, payment.period))

Reimbursements_compute(store, payment) ==
    SumValues(stream(store, payment.employee.key, payment.year, payment.period))

\* ---- BasicPayFullTime ----
BasicPayFullTime_compute(payment) ==
    IF payment.employee.tax_computation = "parttime" THEN 0
    ELSE RoundHalfEven(payment.monthly_wage * payment.time_worked, 100)

BasicPayFullTime_projectCalls(payment) ==
    IF payment.employee.tax_computation = "parttime" THEN << >>
    ELSE <<Value("basic_pay_full_time")>>

BasicPayFullTime_project(payment, historical, V) ==
    IF payment.employee.tax_computation = "parttime" THEN historical["basic_pay_full_time"]
    ELSE ValueIn(V["basic_pay_full_time"]) + historical["basic_pay_full_time"]
         + payment.monthly_wage * months_left_in_year(payment.month)

\* ---- BasicPayPartTime ----
BasicPayPartTime_compute(store, payment) ==
    SumWorked(stream(store, payment.employee.key, payment.year, payment.period))

\* ---- StatutoryBonus ----
\* __calculate_bonus_for_year_and_month, as the fraction [num, den] of a cent
RECURSIVE StatutoryBonus_bonusFrom(_, _, _, _, _)
StatutoryBonus_bonusFrom(entries, i, year, month, payment) ==
    IF i > Len(entries) THEN [num |-> 0, den |-> 1]
    ELSE LET entry == entries[i]
         IN  IF month = entry.month
             THEN LET month_end == MonthEnd(year, month)
                      date_six_months_ago == SixMonthsBefore(year, month, DaysInMonth(year, month))
                  IN  IF payment.employee.start_date < date_six_months_ago
                      THEN [num |-> entry.bonus, den |-> 1]
                      ELSE [num |-> entry.bonus
                                    * count_days_between_dates(month_end, payment.employee.start_date),
                            den |-> count_days_between_dates(month_end, date_six_months_ago)]
             ELSE StatutoryBonus_bonusFrom(entries, i + 1, year, month, payment)

StatutoryBonus_calculate_bonus_for_year_and_month(entries, year, month, payment) ==
    StatutoryBonus_bonusFrom(entries, 1, year, month, payment)

RECURSIVE GCD(_, _)
GCD(a, b) == IF b = 0 THEN a ELSE GCD(b, a % b)

\* a + b over the least common denominator, to keep the products small
AddFraction(a, b) ==
    LET g == GCD(a.den, b.den)
    IN  [num |-> a.num * (b.den \div g) + b.num * (a.den \div g),
         den |-> (a.den \div g) * b.den]

\* the bonus rounded to cents without the scaling by the weekly hours
ScaleByHours_unscaled(bonus, hours_per_week) == RoundHalfEven(bonus.num, bonus.den)

\* Money(bonus * Decimal(hours_per_week / 40), EUR).round(2); hours / 40 is
\* reduced to lowest terms first, to keep the products small.  The float
\* hours_per_week / 40 is exact for the weekly hours of the model (20, 40).
ScaleByHours(bonus, hours_per_week) ==
    LET g == GCD(40, hours_per_week)
    IN  RoundHalfEven(bonus.num * (hours_per_week \div g), bonus.den * (40 \div g))

StatutoryBonus_compute(entries, payment) ==
    ScaleByHours(StatutoryBonus_calculate_bonus_for_year_and_month(
                     entries, payment.year, payment.month, payment),
                 payment.employee.hours_per_week)

RECURSIVE StatutoryBonus_sumFrom(_, _, _)
StatutoryBonus_sumFrom(entries, month, payment) ==
    IF month > 12 THEN [num |-> 0, den |-> 1]
    ELSE AddFraction(StatutoryBonus_calculate_bonus_for_year_and_month(
                         entries, payment.year, month, payment),
                     StatutoryBonus_sumFrom(entries, month + 1, payment))

\* the projection without the bonus of the month of the payment itself
StatutoryBonus_project_after_month(entries, payment, historical) ==
    ScaleByHours(StatutoryBonus_sumFrom(entries, payment.month + 1, payment),
                 payment.employee.hours_per_week)
    + historical["statutory_bonus"]

StatutoryBonus_project(entries, payment, historical) ==
    ScaleByHours(StatutoryBonus_sumFrom(entries, payment.month, payment),
                 payment.employee.hours_per_week)
    + historical["statutory_bonus"]

\* ---- TotalTaxableGrossEmoluments ----
TotalTaxableGrossEmoluments_calls ==
    <<Value("basic_pay_full_time"), Value("basic_pay_part_time"),
      Value("manual_adjustments"), Value("statutory_bonus")>>

\* (... + ... + ... + ...).round(2): basic_pay_part_time arrives in
\* thousandths of a euro, the sum is rounded to cents
TotalTaxableGrossEmoluments_compute(V) ==
    RoundHalfEven((ValueIn(V["basic_pay_full_time"]) + ValueIn(V["manual_adjustments"])
                   + ValueIn(V["statutory_bonus"])) * 10
                  + ValueIn(V["basic_pay_part_time"]), 10)

\* ---- IncomeTaxFullTime ----
IncomeTaxFullTime_computeCalls(payment) ==
    IF payment.employee.tax_computation = "parttime" THEN << >>
    ELSE <<Projection("income_tax_full_time")>>

\* 10^e modulo b, and the number of decimal digits of k
RECURSIVE PowMod(_, _)
PowMod(e, b) == IF e = 0 THEN 1 % b ELSE (10 * PowMod(e - 1, b)) % b

RECURSIVE Digits(_)
Digits(k) == IF k = 0 THEN 0 ELSE 1 + Digits(k \div 10)

RECURSIVE Pow10(_)
Pow10(e) == IF e = 0 THEN 1 ELSE 10 * Pow10(e - 1)

\* (amount * Decimal(time_worked / divisor)).round(0) for an amount >= 0 in
\* cents and time_worked, divisor in hundredths.  The quotient is a Decimal
\* of 28 significant digits: when time_worked / divisor has no finite
\* expansion it lies rem / divisor units of its last place below (above) the
\* stored quotient.  The product is rounded to 28 digits again and then to 0
\* decimals.  Off a tie of the exact product the error is too small to
\* matter; on a tie q + 1/2 the product lands above or below the tie when
\* amount * error exceeds half a unit of the last place of the product, and
\* on the tie itself (rounded to even) otherwise.
RoundOfProduct(amount, time_worked, divisor) ==
    LET n == amount * time_worked
        d == 100 * divisor
        q == n \div d
        places == IF 10 * time_worked >= divisor THEN 1
                  ELSE IF 100 * time_worked >= divisor THEN 2
                  ELSE IF 1000 * time_worked >= divisor THEN 3 ELSE 4
        rem == (time_worked * PowMod(27 + places, divisor)) % divisor
        up == 2 * rem > divisor
        error == 2 * amount * (IF up THEN divisor - rem ELSE rem)
        ulp == Pow10(Digits(q) - 1 + places)
    IN  IF 2 * (n % d) # d \/ rem = 0 THEN RoundHalfEven(n, d)
        ELSE IF ~(error \div ulp > d \/ (error \div ulp = d /\ error % ulp > 0))
        THEN RoundHalfEven(n, d)
        ELSE IF up THEN q + 1 ELSE q

\* (remaining * Decimal(time_worked / (time_worked + months_remaining))).round(0)
IncomeTaxFullTime_compute(payment, historical, P) ==
    IF payment.employee.tax_computation = "parttime" THEN 0
    ELSE LET remaining_income_tax_payable ==
                 ValueIn(P["income_tax_full_time"]) - historical["income_tax_full_time"]
             months_remaining == months_left_in_year(payment.month)
             divisor == payment.time_worked + 100 * months_remaining
         IN  IF remaining_income_tax_payable >= 0
             THEN 100 * RoundOfProduct(remaining_income_tax_payable,
                                       payment.time_worked, divisor)
             ELSE 0 - 100 * RoundOfProduct(0 - remaining_income_tax_payable,
                                           payment.time_worked, divisor)

\* a project that asks for the value of its own name first
IncomeTaxFullTime_projectCalls_own_value(payment) ==
    IF payment.employee.tax_computation = "parttime" THEN << >>
    ELSE <<Value("income_tax_full_time"), Value("prior_gross_emoluments"),
           Projection("basic_pay_full_time"), Value("manual_adjustments"),
           Projection("statutory_bonus")>>

\* the calls project makes before it applies the tax table ...
IncomeTaxFullTime_projectCalls(payment) ==
    IF payment.employee.tax_computation = "parttime" THEN << >>
    ELSE <<Value("prior_gross_emoluments"), Projection("basic_pay_full_time"),
           Value("manual_adjustments"), Projection("statutory_bonus")>>

\* ... and the one it makes after
IncomeTaxFullTime_projectCallsAfter(payment) ==
    IF payment.employee.tax_computation = "parttime" THEN << >>
    ELSE <<Value("prior_income_tax_deduction")>>

IncomeTaxFullTime_total_taxable_amount(historical, V, P) ==
    (ValueIn(V["prior_gross_emoluments"]) + historical["prior_gross_emoluments"])
    + ValueIn(P["basic_pay_full_time"])
    + (ValueIn(V["manual_adjustments"]) + historical["manual_adjustments"])
    + ValueIn(P["statutory_bonus"])

\* self.__table.apply(total_taxable_amount)
IncomeTaxFullTime_total_tax_liability(entries, historical, V, P) ==
    IncomeTaxTable_apply(entries, IncomeTaxFullTime_total_taxable_amount(historical, V, P))

\* max(liability - deduction - historical deduction, historical tax).round(0)
IncomeTaxFullTime_floor(liability_e4, deduction, historical_tax) ==
    100 * RoundHalfEven(Max(liability_e4 - 100 * deduction, 100 * historical_tax), 10000)

IncomeTaxFullTime_project(entries, payment, historical, V, P) ==
    IF payment.employee.tax_computation = "parttime" THEN historical["income_tax_full_time"]
    ELSE IncomeTaxFullTime_floor(
             IncomeTaxFullTime_total_tax_liability(entries, historical, V, P).e4,
             ValueIn(V["prior_income_tax_deduction"]) + historical["prior_income_tax_deduction"],
             historical["income_tax_full_time"])

\* ---- IncomeTaxPartTime ----
IncomeTaxPartTime_computeCalls(payment) ==
    IF payment.employee.tax_computation # "parttime" THEN << >>
    ELSE <<Value("total_taxable_gross_emoluments")>>

IncomeTaxPartTime_compute(rate, payment, V) ==
    IF payment.employee.tax_computation # "parttime" THEN 0
    ELSE 100 * RoundTiesTowardZero(ValueIn(V["total_taxable_gross_emoluments"]) * rate, 10000)

\* ---- SocialSecurityContribution, MaternityFundContribution ----
\* self.__table.apply(category, Money(weekly_wage, "EUR"))
ContributionRate(entries, payment) ==
    CategoryRateTable_apply(entries, payment.employee.social_security_category,
                            payment.weekly_wage)

\* the exception of (apply(...) * mondays).round(2): apply's own, or the
\* TypeError of None * mondays
ContributionRaises(entries, payment) ==
    IF ContributionRate(entries, payment).kind = "None" THEN "TypeError"
    ELSE ContributionRate(entries, payment).exc

\* (apply(...) * mondays).round(2), in cents
ContributionTimesMondays(entries, payment) ==
    LET mondays == count_mondays(Employee_employment_period(payment.employee), payment.period)
    IN  RoundHalfEven(ContributionRate(entries, payment).e4 * mondays, 100)

SocialSecurityContribution_raises(entries, payment) ==
    IF ~Employee_pays_social_security_contributions(payment.employee) THEN ""
    ELSE ContributionRaises(entries, payment)

SocialSecurityContribution_compute(entries, payment) ==
    IF ~Employee_pays_social_security_contributions(payment.employee) THEN 0
    ELSE ContributionTimesMondays(entries, payment)

MaternityFundContribution_raises(entries, payment) == ContributionRaises(entries, payment)

MaternityFundContribution_compute(entries, payment) == ContributionTimesMondays(entries, payment)

\* ---- TotalDeductions, NetPay, TaxDue ----
TotalDeductions_calls ==
    <<Value("income_tax_full_time"), Value("income_tax_part_time"),
      Value("social_security_contribution_employee")>>

TotalDeductions_compute(V) ==
    ValueIn(V["income_tax_full_time"]) + ValueIn(V["income_tax_part_time"])
    + ValueIn(V["social_security_contribution_employee"])

NetPay_calls ==
    <<Value("total_taxable_gross_emoluments"), Value("reimbursements"), Value("total_deductions")>>

\* NetPay.compute with the deductions left out
NetPay_compute_without_deductions(V) ==
    ValueIn(V["total_taxable_gross_emoluments"]) + ValueIn(V["reimbursements"])

NetPay_compute(V) ==
    ValueIn(V["total_taxable_gross_emoluments"]) + ValueIn(V["reimbursements"])
    - ValueIn(V["total_deductions"])

TaxDue_calls ==
    <<Value("income_tax_full_time"), Value("income_tax_part_time"),
      Value("social_security_contribution_employee"),
      Value("social_security_contribution_employer"),
      Value("maternity_fund_contribution_employer")>>

TaxDue_compute(V) ==
    ValueIn(V["income_tax_full_time"]) + ValueIn(V["income_tax_part_time"])
    + ValueIn(V["social_security_contribution_employee"])
    + ValueIn(V["social_security_contribution_employer"])
    + ValueIn(V["maternity_fund_contribution_employer"])


\* ---- a variant defined by a client of the Calculator ----
\* A Calculation subclass whose compute (and project, when it declares one)
\* only resolves the dependencies it was built with and adds them up.
RECURSIVE SumCalls(_, _, _)
SumCalls(calls, V, P) ==
    IF calls = << >> THEN 0
    ELSE (IF Head(calls).kind = "value" THEN ValueIn(V[Head(calls).name])
                                         ELSE ValueIn(P[Head(calls).name]))
         + SumCalls(Tail(calls), V, P)

(***************************************************************************)
(* The registry: Calculator.__calculations.  reg.variant maps each         *)
(* registered name to the class of its variant; the tables, stores and     *)
(* rate the variants were constructed with are fields of reg.              *)
(***************************************************************************)

\* the classes that override Calculation.project
Projectable(reg, name) ==
    CASE reg.variant[name] \in {"BasicPayFullTime", "StatutoryBonus", "IncomeTaxFullTime"} -> TRUE
      [] reg.variant[name] = "Dependent" -> reg.deps[name].projectable
      [] OTHER -> FALSE

\* the value_of / projection_of calls of compute (kind "value") or project
\* (kind "projection") up to the point where the variant can raise
Calls(env, name, kind) ==
    LET cls == env.reg.variant[name]
    IN  IF kind = "value"
        THEN CASE cls = "TotalTaxableGrossEmoluments" -> TotalTaxableGrossEmoluments_calls
               [] cls = "IncomeTaxFullTime" -> IncomeTaxFullTime_computeCalls(env.payment)
               [] cls = "IncomeTaxPartTime" -> IncomeTaxPartTime_computeCalls(env.payment)
               [] cls = "TotalDeductions" -> TotalDeductions_calls
               [] cls = "NetPay" -> NetPay_calls
               [] cls = "TaxDue" -> TaxDue_calls
               [] cls = "Dependent" -> env.reg.deps[name].compute
               [] OTHER -> << >>
        ELSE CASE cls = "BasicPayFullTime" -> BasicPayFullTime_projectCalls(env.payment)
               [] cls = "IncomeTaxFullTime" -> IncomeTaxFullTime_projectCalls(env.payment)
               [] cls = "Dependent" -> env.reg.deps[name].project
               [] OTHER -> << >>

\* the calls made after that point
CallsAfter(env, name, kind) ==
    IF kind = "projection" /\ env.reg.variant[name] = "IncomeTaxFullTime"
    THEN IncomeTaxFullTime_projectCallsAfter(env.payment)
    ELSE << >>

\* the exception compute / project raises once Calls are resolved ("" when none)
Raises(env, name, kind, V, P) ==
    LET cls == env.reg.variant[name]
    IN  CASE kind = "value" /\ cls = "SocialSecurityContribution" ->
                 SocialSecurityContribution_raises(env.reg.ssc_table, env.payment)
          [] kind = "value" /\ cls = "MaternityFundContribution" ->
                 MaternityFundContribution_raises(env.reg.maternity_table, env.payment)
          [] kind = "value" /\ cls = "ManualAdjustments" ->
                 stream_raises(env.reg.manual_adjustments, env.payment.employee.key,
                               env.payment.year)
          [] kind = "value" /\ cls = "Reimbursements" ->
                 stream_raises(env.reg.reimbursements, env.payment.employee.key,
                               env.payment.year)
          [] kind = "value" /\ cls = "BasicPayPartTime" ->
                 stream_raises(env.reg.worklogs, env.payment.employee.key,
                               env.payment.year)
          [] kind = "projection" /\ cls = "IncomeTaxFullTime"
             /\ env.payment.employee.tax_computation # "parttime" ->
                 IncomeTaxFullTime_total_tax_liability(
                     env.reg.income_tax_table, env.historical, V, P).exc
          [] OTHER -> ""

\* what compute / project returns, in cents, once CallsAfter are resolved too
Result(env, name, kind, V, P) ==
    LET cls == env.reg.variant[name]
        reg == env.reg
        payment == env.payment
        historical == env.historical
    IN  IF kind = "value"
        THEN CASE cls = "PriorGrossEmoluments" -> PriorGrossEmoluments_compute(payment)
               [] cls = "ManualAdjustments" ->
                      ManualAdjustments_compute(reg.manual_adjustments, payment)
               [] cls = "BasicPayFullTime" -> BasicPayFullTime_compute(payment)
               [] cls = "BasicPayPartTime" -> BasicPayPartTime_compute(reg.worklogs, payment)
               [] cls = "StatutoryBonus" ->
                      StatutoryBonus_compute(reg.statutory_bonus_table, payment)
               [] cls = "TotalTaxableGrossEmoluments" -> TotalTaxableGrossEmoluments_compute(V)
               [] cls = "ZeroCalculation" -> 0
               [] cls = "IncomeTaxFullTime" -> IncomeTaxFullTime_compute(payment, historical, P)
               [] cls = "IncomeTaxPartTime" -> IncomeTaxPartTime_compute(reg.rate, payment, V)
               [] cls = "SocialSecurityContribution" ->
                      SocialSecurityContribution_compute(reg.ssc_table, payment)
               [] cls = "MaternityFundContribution" ->
                      MaternityFundContribution_compute(reg.maternity_table, payment)
               [] cls = "TotalDeductions" -> TotalDeductions_compute(V)
               [] cls = "Reimbursements" -> Reimbursements_compute(reg.reimbursements, payment)
               [] cls = "NetPay" -> NetPay_compute(V)
               [] cls = "TaxDue" -> TaxDue_compute(V)
               [] cls = "Dependent" -> SumCalls(reg.deps[name].compute, V, P)
        ELSE CASE cls = "BasicPayFullTime" -> BasicPayFullTime_project(payment, historical, V)
               [] cls = "StatutoryBonus" ->
                      StatutoryBonus_project(reg.statutory_bonus_table, payment, historical)
               [] cls = "IncomeTaxFullTime" ->
                      IncomeTaxFullTime_project(reg.income_tax_table, payment, historical, V, P)
               [] cls = "Dependent" -> SumCalls(reg.deps[name].project, V, P)

(***************************************************************************)
(* Calculator (calculation.py)                                             *)
(*                                                                         *)
(* st is the state of one Calculator: __values and __projections, and for  *)
(* the claims the number of times each variant's compute and project was   *)
(* entered and returned.  A resolution returns [st, exc]: the state it leaves and the   *)
(* exception that propagates out of it ("" when it returns normally).      *)
(***************************************************************************)

\* the stand-in for the interpreter's recursion limit, in nested resolutions
RecursionLimit == 8

\* Calculator.__init__: self.__values = Items(); self.__projections = Items()
Calculator_init ==
    [values |-> Items, projections |-> Items,
     compute_calls |-> [n \in Names |-> 0], compute_returns |-> [n \in Names |-> 0],
     project_calls |-> [n \in Names |-> 0], project_returns |-> [n \in Names |-> 0]]

\* the variant's compute or project is entered
Enter(st, name, kind) ==
    IF kind = "value" THEN [st EXCEPT !.compute_calls[name] = @ + 1]
                      ELSE [st EXCEPT !.project_calls[name] = @ + 1]

\* the cache is never consulted: every request computes again
IsCached_never(st, name, kind) == FALSE

\* `if getattr(self.__values, name) is None` / `... self.__projections ...`
IsCached(st, name, kind) ==
    IF kind = "value" THEN st.values[name] # None ELSE st.projections[name] # None

\* a cache whose entry depends on how many computations returned before it
Cache_counting(st, name, kind, result) ==
    LET returned == Cardinality({n \in Names : st.compute_returns[n] > 0})
    IN  IF kind = "value"
        THEN [st EXCEPT !.values[name] = Some(result + returned),
                        !.compute_returns[name] = @ + 1]
        ELSE [st EXCEPT !.projections[name] = Some(result + returned),
                        !.project_returns[name] = @ + 1]

\* compute / project returned result: setattr(self.__values, name, result) /
\* setattr(self.__projections, name, projection)
Cache(st, name, kind, result) ==
    IF kind = "value"
    THEN [st EXCEPT !.values[name] = Some(result), !.compute_returns[name] = @ + 1]
    ELSE [st EXCEPT !.projections[name] = Some(result), !.project_returns[name] = @ + 1]

\* getattr(self.__values, name) / getattr(self.__projections, name)
Cached(st, name, kind) == IF kind = "value" THEN st.values[name] ELSE st.projections[name]

\* a default projection of zero instead of None
Calculation_project_zero == Some(0)

\* Calculation.project, the default of a variant that declares no projection
Calculation_project == None

RECURSIVE Resolve(_, _, _, _)
RECURSIVE ResolveAll(_, _, _, _)

\* value_of(call.name) or projection_of(call.name), at the given nesting depth
Resolve(env, r, call, depth) ==
    IF r.exc # "" THEN r
    ELSE IF IsCached(r.st, call.name, call.kind) THEN r
    ELSE IF depth >= RecursionLimit THEN [r EXCEPT !.exc = "RecursionError"]
    ELSE LET entered == [r EXCEPT !.st = Enter(r.st, call.name, call.kind)]
         IN  IF call.kind = "projection" /\ ~Projectable(env.reg, call.name)
             THEN IF Calculation_project = None
                  THEN [entered EXCEPT !.exc = "ValueError"]  \* "Cannot compute an annual projected value"
                  ELSE [entered EXCEPT !.st = Cache(entered.st, call.name, call.kind,
                                                    ValueIn(Calculation_project))]
             ELSE
             LET r1 == ResolveAll(env, entered, Calls(env, call.name, call.kind), depth + 1)
             IN  IF r1.exc # "" THEN r1
                 ELSE LET exc == Raises(env, call.name, call.kind,
                                        r1.st.values, r1.st.projections)
                      IN  IF exc # "" THEN [r1 EXCEPT !.exc = exc]
                          ELSE LET r2 == ResolveAll(env, r1,
                                                    CallsAfter(env, call.name, call.kind),
                                                    depth + 1)
                               IN  IF r2.exc # "" THEN r2
                                   ELSE [r2 EXCEPT !.st =
                                            Cache(r2.st, call.name, call.kind,
                                                  Result(env, call.name, call.kind,
                                                         r2.st.values, r2.st.projections))]

\* the calls a compute or project makes, one after the other
ResolveAll(env, r, calls, depth) ==
    IF calls = << >> \/ r.exc # "" THEN r
    ELSE ResolveAll(env, Resolve(env, r, Head(calls), depth), Tail(calls), depth)

\* Calculator.value_of(name), called by a client
Calculator_value_of(env, st, name) == Resolve(env, [st |-> st, exc |-> ""], Value(name), 0)

\* Calculator.projection_of(name), called by a client
Calculator_projection_of(env, st, name) ==
    Resolve(env, [st |-> st, exc |-> ""], Projection(name), 0)


(***************************************************************************)
(* The registry Payroll.execute builds (payroll.py)                        *)
(***************************************************************************)

\* the year the payroll is run for
Year == 2022

\* calculations = {...}: the variant registered under each name
PayrollVariants ==
    [n \in Names |->
        CASE n = "prior_gross_emoluments" -> "PriorGrossEmoluments"
          [] n = "manual_adjustments" -> "ManualAdjustments"
          [] n = "basic_pay_full_time" -> "BasicPayFullTime"
          [] n = "basic_pay_part_time" -> "BasicPayPartTime"
          [] n = "statutory_bonus" -> "StatutoryBonus"
          [] n = "total_taxable_gross_emoluments" -> "TotalTaxableGrossEmoluments"
          [] n = "prior_income_tax_deduction" -> "ZeroCalculation"
          [] n = "income_tax_full_time" -> "IncomeTaxFullTime"
          [] n = "income_tax_part_time" -> "IncomeTaxPartTime"
          [] n = "social_security_contribution_employee" -> "SocialSecurityContribution"
          [] n = "social_security_contribution_employer" -> "SocialSecurityContribution"
          [] n = "maternity_fund_contribution_employer" -> "MaternityFundContribution"
          [] n = "total_deductions" -> "TotalDeductions"
          [] n = "reimbursements" -> "Reimbursements"
          [] n = "net_pay" -> "NetPay"
          [] n = "tax_due" -> "TaxDue"]

NoDeps == [n \in Names |-> [compute |-> << >>, project |-> << >>, projectable |-> FALSE]]

\* the registry of Payroll.execute over the given table files and
\* transaction stores; the variants' constructors load the tables
PayrollCalculations(files, stores) ==
    [variant |-> PayrollVariants,
     deps |-> NoDeps,
     statutory_bonus_table |-> MonetaryBonusTable_load(files.statutory_bonus).entries,
     income_tax_table |-> IncomeTaxTable_load(files.income_tax).entries,
     ssc_table |-> CategoryRateTable_load(files.ssc).entries,
     maternity_table |-> CategoryRateTable_load(files.maternity).entries,
     rate |-> PartTimeTaxRate,
     manual_adjustments |-> stores.manual_adjustments,
     worklogs |-> stores.worklogs,
     reimbursements |-> stores.reimbursements]

\* TRUE when a variant's constructor raises: Payroll.execute ends before it
\* looks at any employee
PayrollCalculationsFail(files) ==
    \/ MonetaryBonusTable_load(files.statutory_bonus).status # "loaded"
    \/ IncomeTaxTable_load(files.income_tax).status # "loaded"
    \/ CategoryRateTable_load(files.ssc).status # "loaded"
    \/ CategoryRateTable_load(files.maternity).status # "loaded"

(***************************************************************************)
(* The data the model is run on: the tables directory, the transaction     *)
(* stores and the employees.                                               *)
(***************************************************************************)

IncomeTaxFile ==
    << [upto |-> 9100,  rate |-> 0,  subtract |-> 0],
       [upto |-> 14500, rate |-> 15, subtract |-> 136500],
       [upto |-> 19500, rate |-> 25, subtract |-> 281500],
       [upto |-> 60000, rate |-> 25, subtract |-> 272500],
       [upto |-> -1,    rate |-> 35, subtract |-> 872500] >>

\* categories E and F have no row
SscFile ==
    << [category |-> "A",      rate_type |-> "Fixed", rate |-> 662,  maximum |-> 662],
       [category |-> "B",      rate_type |-> "Fixed", rate |-> 1834, maximum |-> 1834],
       [category |-> "C/D #1", rate_type |-> "Rate",  rate |-> 10,   maximum |-> 3693],
       [category |-> "C/D #2", rate_type |-> "Rate",  rate |-> 10,   maximum |-> 4857] >>

MaternityFile ==
    << [category |-> "A",      rate_type |-> "Fixed", rate |-> 20, maximum |-> 20],
       [category |-> "B",      rate_type |-> "Fixed", rate |-> 55, maximum |-> 55],
       [category |-> "C/D #1", rate_type |-> "Rate",  rate |-> 1,  maximum |-> 111],
       [category |-> "C/D #2", rate_type |-> "Rate",  rate |-> 1,  maximum |-> 146] >>

StatutoryBonusFile ==
    << [month |-> "march",     bonus |-> 12116],
       [month |-> "june",      bonus |-> 13510],
       [month |-> "september", bonus |-> 12116],
       [month |-> "december",  bonus |-> 13510] >>

TableFiles ==
    [statutory_bonus |-> StatutoryBonusFile, income_tax |-> IncomeTaxFile,
     ssc |-> SscFile, maternity |-> MaternityFile]

Transaction(employee, dated, value) ==
    [employee |-> employee, year |-> Year, dated |-> dated, value |-> value]

WorkLog(employee, dated, hours, hourly_wage) ==
    [employee |-> employee, year |-> Year, dated |-> dated,
     hours |-> hours, hourly_wage |-> hourly_wage]

Stores ==
    [manual_adjustments |-> << Transaction("e1", Date(Year, 11, 10), 10000),
                               Transaction("e2", Date(Year, 12, 5), 5000),
                               Transaction("e6", Date(Year, 3, 5), 4000),
                               Unparsed("e6", Year, "ValidationError"),
                               Transaction("e6", Date(Year, 3, 20), 6000),
                               Transaction("e6", Date(Year, 4, 2), 700),
                               Transaction("e7", Date(Year, 3, 5), 4000),
                               Unparsed("e7", Year, "ValueError"),
                               Transaction("e7", Date(Year, 3, 20), 6000) >>,
     reimbursements     |-> << Transaction("e1", Date(Year, 12, 12), 2550),
                               Transaction("e3", Date(Year, 11, 2), 1000),
                               Unparsed("e6", Year, "ValidationError"),
                               Transaction("e6", Date(Year, 3, 7), 1250),
                               Transaction("e7", Date(Year, 6, 7), 1250) >>,
     worklogs           |-> << WorkLog("e2", Date(Year, 2, 10), 50, 1000),
                               WorkLog("e2", Date(Year, 4, 8), 75, 1201),
                               WorkLog("e2", Date(Year, 11, 20), 100, 1200),
                               WorkLog("e2", Date(Year, 12, 21), 120, 1200),
                               WorkLog("e6", Date(Year, 3, 10), 80, 1500),
                               Unparsed("e6", Year, "ValidationError"),
                               WorkLog("e6", Date(Year, 3, 25), 40, 1500) >>]

Employee(key, start_date, end_date, hours_per_week, tax_computation, social_security_category, gross_annual_salary, gross_annual_emoluments) ==
    [key |-> key, start_date |-> start_date, end_date |-> end_date,
     hours_per_week |-> hours_per_week, tax_computation |-> tax_computation,
     social_security_category |-> social_security_category,
     gross_annual_salary |-> gross_annual_salary,
     prior_tax_information |-> [gross_annual_emoluments |-> gross_annual_emoluments,
                                income_tax |-> 0]]

\* e1: full time, employed for years; e2: part time, joins in November with
\* earnings from a previous employer; e3: full time, in a category the
\* contribution tables have no row for
Employee1 == Employee("e1", Date(Year - 1, 3, 1), NoDate, 40, "single", "C/D #2", 2400000, 0)
Employee2 == Employee("e2", Date(Year, 11, 14), NoDate, 20, "parttime", "C/D #1", 1200000, 500000)
Employee3 == Employee("e3", Date(Year, 8, 16), NoDate, 40, "married", "F", 3000000, 0)


\* the year-to-date Items of e1 before December: eleven months of pay, the
\* bonuses of March, June and September, 2 500.00 of income tax withheld
Historical1 ==
    [Items_zero EXCEPT !["basic_pay_full_time"] = 2200000,
                       !["manual_adjustments"] = 10000,
                       !["statutory_bonus"] = 37742,
                       !["total_taxable_gross_emoluments"] = 2247742,
                       !["income_tax_full_time"] = 250000,
                       !["social_security_contribution_employee"] = 221568,
                       !["social_security_contribution_employer"] = 221568,
                       !["maternity_fund_contribution_employer"] = 22128,
                       !["total_deductions"] = 471568,
                       !["net_pay"] = 1776174,
                       !["tax_due"] = 715264]

\* the payments a Calculator is built for: [employee, month, historical]
CalculatorContexts ==
    { [employee |-> Employee1, month |-> 12, historical |-> Historical1],
      [employee |-> Employee2, month |-> 11, historical |-> Items_zero],
      [employee |-> Employee3, month |-> 12, historical |-> Items_zero] }

(***************************************************************************)
(* Idle values of the variables a specification does not use               *)
(***************************************************************************)

NoTable   == [kind |-> "", status |-> "", entries |-> << >>]
NoApplied == [op |-> "", category |-> "", amount |-> 0, result |-> ReturnedNone]
NoOutcome == [calc |-> 0, call |-> [name |-> "", kind |-> ""], exc |-> "", result |-> None]
NoRun     == [count |-> 0, month |-> 0, status |-> "", paid |-> << >>]

TablesIdle == file = << >> /\ table = NoTable /\ applied = NoApplied
CalculatorIdle ==
    /\ calculations = [variant |-> << >>]
    /\ context = << >> /\ calc = << >> /\ outcome = NoOutcome /\ requests = << >>
BatchIdle == employees = << >> /\ stored = {} /\ run = NoRun
NoSum     == [exc |-> "no call", items |-> Items]
NoOperands == [a |-> Items, b |-> Items]
ItemsIdle == operands = NoOperands /\ added = NoSum

(***************************************************************************)
(* SpecCalc: clients of the Calculator.  Calculators are constructed over  *)
(* one shared registry, as in Payroll.execute, and asked for values and    *)
(* projections of registered names in any order.                           *)
(***************************************************************************)

\* how many Calculators are constructed, and how many requests are made
NumCalculators == 2
MaxRequests == 2

\* the two caches held by the class instead of the instance: every
\* Calculator sees what any of them resolved
Store_shared(calcs, c, st) ==
    [k \in DOMAIN calcs |->
        IF k = c THEN st
        ELSE [calcs[k] EXCEPT !.values = st.values, !.projections = st.projections]]

\* self.__values / self.__projections belong to the instance: what a request
\* on Calculator c leaves in the Calculators
Store(calcs, c, st) == [calcs EXCEPT ![c] = st]

Env(c) == [reg |-> calculations, payment |-> context[c].payment,
           historical |-> context[c].historical]

RECURSIVE SumSeq(_)
SumSeq(q) == IF q = << >> THEN 0 ELSE Head(q) + SumSeq(Tail(q))

\* ---- registries of other clients of the Calculator ----
\* Calculator.__init__ takes any dict of name -> Calculation.  These are the
\* registry of Payroll.execute with one name registered to a variant of the
\* client's own, whose compute or project resolves the listed dependencies.
Dependent(reg, name, compute, project, projectable) ==
    [reg EXCEPT !.variant[name] = "Dependent",
                !.deps[name] = [compute |-> compute, project |-> project,
                                projectable |-> projectable]]

\* net_pay is computed from itself
SelfDependent ==
    Dependent(PayrollCalculations(TableFiles, Stores), "net_pay",
              << Value("reimbursements"), Value("net_pay") >>, << >>, FALSE)

\* total_deductions is computed from net_pay, which NetPay computes from
\* total_deductions
MutuallyDependent ==
    Dependent(PayrollCalculations(TableFiles, Stores), "total_deductions",
              << Value("net_pay") >>, << >>, FALSE)

\* the projection of basic_pay_full_time resolves the value of
\* income_tax_full_time, whose compute resolves its own projection, whose
\* project resolves the projection of basic_pay_full_time
ProjectionDependent ==
    Dependent(PayrollCalculations(TableFiles, Stores), "basic_pay_full_time",
              << >>, << Value("income_tax_full_time") >>, TRUE)

\* tax_due is computed from a projection reimbursements does not declare
UnavailableDependent ==
    Dependent(PayrollCalculations(TableFiles, Stores), "tax_due",
              << Value("net_pay"), Projection("reimbursements") >>, << >>, FALSE)

Registries ==
    { PayrollCalculations(TableFiles, Stores),
      SelfDependent, MutuallyDependent, ProjectionDependent, UnavailableDependent }

InitCalc ==
    /\ calculations \in Registries
    /\ context = << >>
    /\ calc = << >>
    /\ outcome = NoOutcome
    /\ requests = << >>
    /\ TablesIdle
    /\ BatchIdle
    /\ ItemsIdle

\* calculator = Calculator(payment, historical, calculations)
Construct(ctx) ==
    /\ Len(calc) < NumCalculators
    /\ context' = Append(context, [payment |-> Payment(ctx.employee, Year, ctx.month),
                                   historical |-> ctx.historical])
    /\ calc' = Append(calc, Calculator_init)
    /\ requests' = Append(requests, 0)
    /\ UNCHANGED <<calculations, outcome>>
    /\ UNCHANGED tblVars
    /\ UNCHANGED batchVars
    /\ UNCHANGED itemVars

\* what a client sees of a request that left r
Outcome(c, call, r) ==
    [calc |-> c, call |-> call, exc |-> r.exc,
     result |-> IF r.exc = "" THEN Cached(r.st, call.name, call.kind) ELSE None]

\* calculator.value_of(name)
ValueOf(c, name) ==
    /\ SumSeq(requests) < MaxRequests
    /\ LET r == Calculator_value_of(Env(c), calc[c], name)
       IN  /\ calc' = Store(calc, c, r.st)
           /\ outcome' = Outcome(c, Value(name), r)
    /\ requests' = [requests EXCEPT ![c] = @ + 1]
    /\ UNCHANGED <<calculations, context>>
    /\ UNCHANGED tblVars
    /\ UNCHANGED batchVars
    /\ UNCHANGED itemVars

\* calculator.projection_of(name)
ProjectionOf(c, name) ==
    /\ SumSeq(requests) < MaxRequests
    /\ LET r == Calculator_projection_of(Env(c), calc[c], name)
       IN  /\ calc' = Store(calc, c, r.st)
           /\ outcome' = Outcome(c, Projection(name), r)
    /\ requests' = [requests EXCEPT ![c] = @ + 1]
    /\ UNCHANGED <<calculations, context>>
    /\ UNCHANGED tblVars
    /\ UNCHANGED batchVars
    /\ UNCHANGED itemVars

NextCalc ==
    \/ \E ctx \in CalculatorContexts : Construct(ctx)
    \/ \E c \in DOMAIN calc : \E name \in Names : ValueOf(c, name)
    \/ \E c \in DOMAIN calc : \E name \in Names : ProjectionOf(c, name)

SpecCalc == InitCalc /\ [][NextCalc]_vars


(***************************************************************************)
(* Claims on the Calculator (SpecCalc)                                     *)
(***************************************************************************)

\* C1 as stated: within one Calculator the compute of every registered name
\* is executed at most once, its project at most once when it returns a
\* projection, whatever the sequence of value_of / projection_of requests.
C1_ComputeExecutedAtMostOnce ==
    \A c \in DOMAIN calc : \A n \in Names :
        /\ calc[c].compute_calls[n] <= 1
        /\ calc[c].project_returns[n] >= 1 => calc[c].project_calls[n] <= 1

\* C1 as amended: a compute that returns a value, and a project that returns
\* a projection, is executed exactly once: its result is cached and every
\* later request finds the entry set.  Only a compute or project that raised
\* (it caches nothing) is executed again by a later request.
C1_ExecutedOnceWhenItReturns ==
    \A c \in DOMAIN calc : \A n \in Names :
        /\ calc[c].compute_returns[n] <= 1
        /\ calc[c].project_returns[n] <= 1
        /\ calc[c].compute_returns[n] = 1 => calc[c].compute_calls[n] = 1
        /\ calc[c].project_returns[n] = 1 => calc[c].project_calls[n] = 1
        /\ (calc[c].values[n] # None) <=> (calc[c].compute_returns[n] = 1)
        /\ (calc[c].projections[n] # None) <=> (calc[c].project_returns[n] = 1)

\* two variants (net_pay and income_tax_part_time of a part-time employee)
\* resolved total_taxable_gross_emoluments, a client asked for it again, and
\* its compute ran once
C1_Witness ==
    \E c \in DOMAIN calc :
        /\ context[c].payment.part_time
        /\ requests[c] = 2
        /\ outcome.calc = c /\ outcome.exc = ""
        /\ outcome.call = Value("total_taxable_gross_emoluments")
        /\ calc[c].values["net_pay"] # None
        /\ calc[c].values["income_tax_part_time"] # None
        /\ calc[c].compute_calls["total_taxable_gross_emoluments"] = 1

\* the names whose variant declares no projection
NotProjectable == Names \ {"basic_pay_full_time", "statutory_bonus", "income_tax_full_time"}

\* C2: projection_of(name) of a variant that declares no projection fails
\* with the explicit error, returns nothing (never zero), and leaves the
\* projection entry unset, so that a repeated request fails again.
C2_ProjectionUnavailable ==
    /\ \A c \in DOMAIN calc : \A n \in NotProjectable :
           /\ calc[c].projections[n] = None
           /\ calc[c].project_returns[n] = 0
    /\ (outcome.call.kind = "projection" /\ outcome.call.name \in NotProjectable)
           => (outcome.exc = "ValueError" /\ outcome.result = None)

\* the projection of net_pay was requested twice from one Calculator and
\* failed the second time too
C2_Witness ==
    /\ outcome.call = Projection("net_pay")
    /\ outcome.exc = "ValueError"
    /\ calc[outcome.calc].project_calls["net_pay"] = 2

\* C7: a new Calculator has every value and projection unset, whatever the
\* other Calculators over the same registry have resolved, and a request on
\* one Calculator leaves the caches of every other Calculator as they were.
C7_NoCrossPaymentState ==
    /\ [](\A c \in DOMAIN calc :
             requests[c] = 0 => (calc[c].values = Items /\ calc[c].projections = Items))
    /\ [][\A c \in DOMAIN calc : requests'[c] = requests[c] => calc'[c] = calc[c]]_vars

\* one Calculator has resolved net_pay, a second one over the same registry
\* has been used too and has no net_pay
C7_Witness ==
    \E c1, c2 \in DOMAIN calc :
        /\ c1 # c2
        /\ requests[c1] = 1 /\ requests[c2] = 1
        /\ calc[c1].values["net_pay"] # None
        /\ calc[c2].values["net_pay"] = None
        /\ calc[c2].values["reimbursements"] # None


\* the calls the compute (kind "value") or project (kind "projection") of a
\* call's variant makes: the edges of the dependency graph of a registry
DependenciesOf(env, call) ==
    IF call.kind = "projection" /\ ~Projectable(env.reg, call.name) THEN {}
    ELSE LET calls == Calls(env, call.name, call.kind) \o CallsAfter(env, call.name, call.kind)
         IN  {calls[i] : i \in DOMAIN calls}

\* the calls reachable from a set of calls
RECURSIVE Reachable(_, _, _)
Reachable(env, frontier, seen) ==
    IF frontier = {} THEN seen
    ELSE LET next == UNION {DependenciesOf(env, call) : call \in frontier}
         IN  Reachable(env, next \ (seen \cup frontier), seen \cup frontier)

\* the call transitively depends on itself
DependsOnItself(env, call) == call \in Reachable(env, DependenciesOf(env, call), {})

\* C3 as stated: resolving a name that transitively depends on itself ends
\* with an explicit dependency-cycle failure, not with the recursion
\* exhausting the call stack.
C3_CycleDetected ==
    (outcome.calc # 0 /\ DependsOnItself(Env(outcome.calc), outcome.call))
        => outcome.exc = "DependencyCycle"


(***************************************************************************)
(* SpecTables: a rate table is loaded from the rows of a csv file and      *)
(* applied.  file holds the rows last read, table what load left behind    *)
(* (status "loaded", or the exception the constructor raised), applied the *)
(* last call of apply and what it returned.                                *)
(***************************************************************************)

\* the longest file that is read
MaxRows == 2

\* the rows an author can write
IncomeTaxRows ==
    [upto : {-5, -1, 100, 200}, rate : {10, 25, 101}, subtract : {-1, 0, 500}]

CategoryRateRows ==
    [category : {"A", "B", "Z"}, rate_type : {"Fixed", "Rate", "Other"},
     rate : {-50, 10, 150}, maximum : {-100, 100}]

MonetaryBonusRows == [month : {"march", "june", "brumaire"}, bonus : {-1, 12116}]

\* the files of at most MaxRows rows
Files(rows) == UNION {[1..n -> rows] : n \in 0..MaxRows}

\* the amounts apply is called with, in cents
TaxableAmounts == {-1000, 5000, 10000, 15000, 30000}
WeeklyWages == {500, 46154}

InitTables ==
    /\ TablesIdle
    /\ CalculatorIdle
    /\ BatchIdle
    /\ ItemsIdle

\* IncomeTaxTable(filepath): the constructor, which calls load(filepath)
LoadIncomeTaxTable(rows) ==
    /\ table = NoTable
    /\ file' = rows
    /\ table' = IncomeTaxTable_load(rows)
    /\ applied' = NoApplied
    /\ UNCHANGED calcVars
    /\ UNCHANGED batchVars
    /\ UNCHANGED itemVars

\* CategoryRateTable(filepath): the constructor, which calls load(filepath)
LoadCategoryRateTable(rows) ==
    /\ table = NoTable
    /\ file' = rows
    /\ table' = CategoryRateTable_load(rows)
    /\ applied' = NoApplied
    /\ UNCHANGED calcVars
    /\ UNCHANGED batchVars
    /\ UNCHANGED itemVars

\* MonetaryBonusTable(filepath): the constructor, which calls load(filepath)
LoadMonetaryBonusTable(rows) ==
    /\ table = NoTable
    /\ file' = rows
    /\ table' = MonetaryBonusTable_load(rows)
    /\ applied' = NoApplied
    /\ UNCHANGED calcVars
    /\ UNCHANGED batchVars
    /\ UNCHANGED itemVars

\* income_tax_table.apply(taxable)
ApplyIncomeTax(taxable) ==
    /\ table.kind = "IncomeTaxTable" /\ table.status = "loaded"
    /\ applied' = [op |-> "IncomeTaxTable.apply", category |-> "", amount |-> taxable,
                   result |-> IncomeTaxTable_apply(table.entries, taxable)]
    /\ UNCHANGED <<file, table>>
    /\ UNCHANGED calcVars
    /\ UNCHANGED batchVars
    /\ UNCHANGED itemVars

\* category_rate_table.apply(category, weekly_wage)
ApplyCategoryRate(category, weekly_wage) ==
    /\ table.kind = "CategoryRateTable" /\ table.status = "loaded"
    /\ applied' = [op |-> "CategoryRateTable.apply", category |-> category,
                   amount |-> weekly_wage,
                   result |-> CategoryRateTable_apply(table.entries, category, weekly_wage)]
    /\ UNCHANGED <<file, table>>
    /\ UNCHANGED calcVars
    /\ UNCHANGED batchVars
    /\ UNCHANGED itemVars

NextTables ==
    \/ \E rows \in Files(IncomeTaxRows) : LoadIncomeTaxTable(rows)
    \/ \E rows \in Files(CategoryRateRows) : LoadCategoryRateTable(rows)
    \/ \E rows \in Files(MonetaryBonusRows) : LoadMonetaryBonusTable(rows)
    \/ \E taxable \in TaxableAmounts : ApplyIncomeTax(taxable)
    \/ \E category \in SocialSecurityCategory : \E weekly_wage \in WeeklyWages :
           ApplyCategoryRate(category, weekly_wage)

SpecTables == InitTables /\ [][NextTables]_vars

(***************************************************************************)
(* Claims on the rate tables (SpecTables)                                  *)
(***************************************************************************)

\* the rows of the file whose category is the one apply was called with
RowsOfCategory == {i \in 1..Len(file) : file[i].category = applied.category}

\* C5 as stated: CategoryRateTable.apply with a category that matches no
\* entry of the table reports an error; it never returns an empty result.
C5_UnmatchedCategoryReported ==
    (applied.op = "CategoryRateTable.apply" /\ RowsOfCategory = {})
        => applied.result.kind = "raise"

\* a row the author must not write: an upper bound that is negative and not
\* -1, a rate outside [0, 1], a negative subtract, maximum, bonus or fixed
\* amount, an unknown category, rate kind or month
InvalidRow(kind, row) ==
    CASE kind = "IncomeTaxTable" ->
             \/ row.upto < 0 /\ row.upto # -1
             \/ row.rate < 0 \/ row.rate > 100
             \/ row.subtract < 0
      [] kind = "CategoryRateTable" ->
             \/ row.category \notin {"A", "B", "C/D #1", "C/D #2", "E", "F"}
             \/ row.rate_type \notin {"Fixed", "Rate"}
             \/ row.rate_type = "Rate" /\ (row.rate < 0 \/ row.rate > 100)
             \/ row.rate_type = "Fixed" /\ row.rate < 0
             \/ row.maximum < 0
      [] kind = "MonetaryBonusTable" ->
             \/ row.month \notin {MonthNames[i] : i \in 1..12}
             \/ row.bonus < 0

\* C6 as stated: loading a table from a file with an invalid row fails as a
\* whole: no table is produced.
C6_InvalidRowFailsLoad ==
    (table.kind # "" /\ \E i \in 1..Len(file) : InvalidRow(table.kind, file[i]))
        => table.status # "loaded"

\* the first row of the file whose bound is -1 or at least the amount (0
\* when there is none)
FirstBoundAtLeast(taxable) ==
    LET matching == {i \in 1..Len(file) :
                        file[i].upto = -1 \/ file[i].upto * 100 >= taxable}
    IN  IF matching = {} THEN 0
        ELSE CHOOSE i \in matching : \A j \in matching : i <= j

\* C9 as stated: IncomeTaxTable.apply(taxable) returns (taxable x rate) -
\* subtract of the first entry, in file order, whose upper bound is at least
\* taxable, an entry with bound -1 matching every amount, and zero when no
\* entry matches.
C9_FirstBoundDecides ==
    applied.op = "IncomeTaxTable.apply" =>
        LET i == FirstBoundAtLeast(applied.amount)
        IN  applied.result =
                IF i = 0 THEN Returned(0)
                ELSE Returned(applied.amount * file[i].rate - file[i].subtract * 100)

\* C10 as stated: CategoryRateTable.apply for a category with an entry
\* returns min(amount, maximum) of the first entry of that category in file
\* order, amount being the fixed amount of a Fixed entry and weekly wage x
\* rate of a Rate entry.
C10_FirstEntryCapped ==
    (applied.op = "CategoryRateTable.apply" /\ RowsOfCategory # {}) =>
        LET i == CHOOSE i \in RowsOfCategory : \A j \in RowsOfCategory : i <= j
            amount == IF file[i].rate_type = "Fixed" THEN file[i].rate * 100
                      ELSE applied.amount * file[i].rate
        IN  /\ applied.result = Returned(Min(amount, file[i].maximum * 100))
            /\ applied.result.e4 <= file[i].maximum * 100


(***************************************************************************)
(* SpecBatch: the payroll is run month after month over the employees and  *)
(* the payments directory (payroll.py, payment.py).  employees is the      *)
(* order in which the employee store yields the employee files, stored the *)
(* payment files on disk, run the last call of Payroll.payments or         *)
(* Payroll.revert: how it ended and the payments it wrote.                 *)
(***************************************************************************)

\* calculations.keys(): the order in which Payroll.execute asks for the values
PayrollOrder ==
    <<"prior_gross_emoluments", "manual_adjustments", "basic_pay_full_time",
      "basic_pay_part_time", "statutory_bonus", "total_taxable_gross_emoluments",
      "prior_income_tax_deduction", "income_tax_full_time", "income_tax_part_time",
      "social_security_contribution_employee", "social_security_contribution_employer",
      "maternity_fund_contribution_employer", "total_deductions", "reimbursements",
      "net_pay", "tax_due">>

\* LineItems: the current_period amounts of a payment file of the earlier format
LineItemNames ==
    {"prior_gross_emoluments", "basic_pay", "manual_adjustments", "statutory_bonus",
     "total_taxable_gross_emoluments", "prior_income_tax_deduction", "income_tax",
     "social_security_contribution_employee", "social_security_contribution_employer",
     "total_deductions", "maternity_fund_contribution_employer", "net_employee_pay",
     "net_tax_payment"}

\* LineItems(): every LineItem zero
LineItems == [n \in LineItemNames |-> 0]

\* LineItems.as_items(part_time)
LineItems_as_items(line_items, part_time) ==
    [n \in Names |->
        Some(CASE n = "basic_pay_full_time" -> IF ~part_time THEN line_items["basic_pay"] ELSE 0
               [] n = "basic_pay_part_time" -> IF part_time THEN line_items["basic_pay"] * 10 ELSE 0
               [] n = "income_tax_full_time" -> IF ~part_time THEN line_items["income_tax"] ELSE 0
               [] n = "income_tax_part_time" -> IF part_time THEN line_items["income_tax"] ELSE 0
               [] n = "reimbursements" -> 0
               [] n = "net_pay" -> line_items["net_employee_pay"]
               [] n = "tax_due" -> line_items["net_tax_payment"]
               [] OTHER -> line_items[n])]

\* a payment file: payments/<employee>/<year>/<year>-<month>-payment-<employee>.yml
PaymentFile(employee, year, month, items, line_items) ==
    [employee |-> employee.key, year |-> year, month |-> month,
     end |-> MonthEnd(year, month),
     part_time |-> (employee.tax_computation = "parttime"),
     items |-> items, line_items |-> line_items]

\* a load that also yields the payment of the month that starts at start
FilesystemPaymentStore_load_through_month(store, employee_key, year, start) ==
    LET found == {f \in store : f.employee = employee_key /\ f.year = year
                                                          /\ f.end < start + 31}
    IN  {[path |-> <<f.employee, f.year, f.month>>,
          items |-> IF f.line_items["net_employee_pay"] > 0
                    THEN LineItems_as_items(f.line_items, f.part_time)
                    ELSE f.items] : f \in found}

\* FilesystemPaymentStore.load(employee_key, year, payment.period.end < start):
\* the Items of the payments it yields
FilesystemPaymentStore_load(store, employee_key, year, start) ==
    LET found == {f \in store : f.employee = employee_key /\ f.year = year /\ f.end < start}
    IN  {[path |-> <<f.employee, f.year, f.month>>,
          items |-> IF f.line_items["net_employee_pay"] > 0
                    THEN LineItems_as_items(f.line_items, f.part_time)
                    ELSE f.items] : f \in found}

\* accumulator = accumulator + payment.items, over the payments in any order
RECURSIVE SumItems(_)
SumItems(payments) ==
    IF payments = {} THEN Items_zero
    ELSE LET payment == CHOOSE x \in payments : TRUE
         IN  Items_add(SumItems(payments \ {payment}),
                       [n \in Names |-> ValueIn(payment.items[n])])

\* FilesystemPaymentStore.aggregate_for_employee: Money + None raises TypeError
aggregate_for_employee(store, employee_key, year, start) ==
    LET payments == FilesystemPaymentStore_load(store, employee_key, year, start)
    IN  IF \E payment \in payments : \E n \in Names : payment.items[n] = None
        THEN [exc |-> "TypeError", items |-> Items_zero]
        ELSE [exc |-> "", items |-> SumItems(payments)]

\* one turn of the loop of Payroll.execute: the historical Items, the
\* Payment, the Calculator and a value_of per registered name.  projected
\* is what projection_of("income_tax_full_time") is for this Calculator,
\* projections what projection_of is for the three projectable names.
ExecuteFor(reg, employee, year, month, store) ==
    LET historical == aggregate_for_employee(store, employee.key, year, Date(year, month, 1))
        env == [reg |-> reg, payment |-> Payment(employee, year, month),
                historical |-> historical.items]
        r == ResolveAll(env, [st |-> Calculator_init, exc |-> ""],
                        [i \in 1..Len(PayrollOrder) |-> Value(PayrollOrder[i])], 0)
        p == ResolveAll(env, [st |-> r.st, exc |-> ""],
                        <<Projection("basic_pay_full_time"), Projection("statutory_bonus"),
                          Projection("income_tax_full_time")>>, 0)
    IN  IF historical.exc # ""
        THEN [exc |-> historical.exc, employee |-> employee.key, items |-> Items,
              payment |-> env.payment, historical |-> Items_zero, projected |-> 0,
              projections |-> Items]
        ELSE IF r.exc # ""
        THEN [exc |-> r.exc, employee |-> employee.key, items |-> Items,
              payment |-> env.payment, historical |-> historical.items, projected |-> 0,
              projections |-> Items]
        ELSE [exc |-> "", employee |-> employee.key, items |-> r.st.values,
              payment |-> env.payment, historical |-> historical.items,
              projections |-> p.st.projections,
              projected |-> ValueIn(Calculator_projection_of(env, r.st, "income_tax_full_time")
                                        .st.projections["income_tax_full_time"])]

\* open(subpath, "w"): the file of that employee and month is replaced
WritePayment(store, written) ==
    {f \in store : ~(f.employee = written.employee /\ f.year = written.year
                                                    /\ f.month = written.month)}
        \cup {written}

\* Payroll.payments(year, month) from the i-th employee file on: each payment
\* Payroll.execute yields is written before the next employee is looked at,
\* and an exception ends the call
RECURSIVE Payroll_paymentsFrom(_, _, _, _, _, _, _)
Payroll_paymentsFrom(reg, emps, i, year, month, store, paid) ==
    IF i > Len(emps) THEN [status |-> "done", stored |-> store, paid |-> paid]
    ELSE IF ~(Employee_time_worked_in_period(emps[i], MonthPeriod(year, month)) > 0)
    THEN Payroll_paymentsFrom(reg, emps, i + 1, year, month, store, paid)
    ELSE LET payment == ExecuteFor(reg, emps[i], year, month, store)
         IN  IF payment.exc # ""
             THEN [status |-> payment.exc, stored |-> store, paid |-> paid]
             ELSE Payroll_paymentsFrom(
                      reg, emps, i + 1, year, month,
                      WritePayment(store, PaymentFile(emps[i], year, month,
                                                      payment.items, LineItems)),
                      Append(paid, payment))

\* Payroll.payments(year, month)
Payroll_payments(files, stores, emps, year, month, store) ==
    IF PayrollCalculationsFail(files)
    THEN [status |-> "ValidationError", stored |-> store, paid |-> << >>]
    ELSE Payroll_paymentsFrom(PayrollCalculations(files, stores), emps, 1, year, month,
                              store, << >>)

\* Payroll.revert(year, month): the payment files of that month are unlinked
Payroll_revert(store, year, month) == {f \in store : ~(f.year = year /\ f.month = month)}

\* e4: full time on a salary below the first band of the income tax table
Employee4 == Employee("e4", Date(Year - 2, 1, 1), NoDate, 40, "single", "A", 840000, 0)

\* the payment of January to e4 as an earlier version wrote it, with 10.40
\* of income tax withheld
EarlierPayment4 ==
    PaymentFile(Employee4, Year, 1, Items,
                [LineItems EXCEPT !["basic_pay"] = 70000,
                                  !["total_taxable_gross_emoluments"] = 70000,
                                  !["income_tax"] = 1040,
                                  !["social_security_contribution_employee"] = 2648,
                                  !["social_security_contribution_employer"] = 2648,
                                  !["total_deductions"] = 3688,
                                  !["maternity_fund_contribution_employer"] = 80,
                                  !["net_employee_pay"] = 66312,
                                  !["net_tax_payment"] = 6416])

\* the months the payroll is run for, and how many times it is run
Months == {1, 2, 11, 12}
MaxRuns == 3

\* the orders in which glob("*.yml") can yield the employee files
EmployeeFiles == {Employee1, Employee2, Employee3, Employee4}
EmployeeOrders ==
    {order \in [1..Cardinality(EmployeeFiles) -> EmployeeFiles] :
        \A i, j \in DOMAIN order : i # j => order[i] # order[j]}

InitBatch ==
    /\ employees \in EmployeeOrders
    /\ stored \in {{}, {EarlierPayment4}}
    /\ run = NoRun
    /\ TablesIdle
    /\ CalculatorIdle
    /\ ItemsIdle

\* the command `payments`: Payroll(data_dir).payments(year, month)
RunPayments(month) ==
    /\ run.count < MaxRuns
    /\ LET done == Payroll_payments(TableFiles, Stores, employees, Year, month, stored)
       IN  /\ stored' = done.stored
           /\ run' = [count |-> run.count + 1, month |-> month,
                      status |-> done.status, paid |-> done.paid]
    /\ UNCHANGED employees
    /\ UNCHANGED tblVars
    /\ UNCHANGED calcVars
    /\ UNCHANGED itemVars

\* the command `revert`: Payroll(data_dir).revert(year, month)
RunRevert(month) ==
    /\ run.count < MaxRuns
    /\ \E f \in stored : f.year = Year /\ f.month = month
    /\ stored' = Payroll_revert(stored, Year, month)
    /\ run' = [count |-> run.count + 1, month |-> month, status |-> "reverted", paid |-> << >>]
    /\ UNCHANGED employees
    /\ UNCHANGED tblVars
    /\ UNCHANGED calcVars
    /\ UNCHANGED itemVars

NextBatch ==
    \/ \E month \in Months : RunPayments(month)
    \/ \E month \in Months : RunRevert(month)

SpecBatch == InitBatch /\ [][NextBatch]_vars

(***************************************************************************)
(* Claims on the batch (SpecBatch)                                         *)
(***************************************************************************)

\* the employees the run looked for: those who worked in the month
Eligible(month) ==
    {i \in DOMAIN employees :
        Employee_time_worked_in_period(employees[i], MonthPeriod(Year, month)) > 0}

\* the employees of the last run whose payment was written
Paid == {run.paid[i].employee : i \in DOMAIN run.paid}

\* C4 as stated: when the payment of one employee fails, only that payment
\* is aborted: the run still writes the payment of every eligible employee
\* that comes after the failing one.
C4_BatchContinues ==
    run.status \notin {"", "reverted"} =>
        \A i, j \in Eligible(run.month) :
            (i < j /\ employees[i].key \notin Paid) => employees[j].key \in Paid

\* the income tax withheld from an employee in the months of the year
\* before the given one, from the payment files
YearToDate(employee_key, month) ==
    SumItems(FilesystemPaymentStore_load(stored, employee_key, Year, Date(Year, month, 1)))
        ["income_tax_full_time"]

\* C8 as stated: for every payment the projected annual income_tax_full_time
\* is at least the income_tax_full_time withheld so far in the year, the
\* value of the period is never negative, and the year-to-date income tax
\* never decreases from one month to a later one.
C8_WithholdingNeverDecreases ==
    /\ \A i \in DOMAIN run.paid :
           /\ run.paid[i].projected >= run.paid[i].historical["income_tax_full_time"]
           /\ ValueIn(run.paid[i].items["income_tax_full_time"]) >= 0
    /\ \A i \in DOMAIN employees : \A month \in 1..11 :
           YearToDate(employees[i].key, month) <= YearToDate(employees[i].key, month + 1)

(***************************************************************************)
(* SpecMonth: the payroll of one month is run once for one employee file   *)
(* on an empty payments directory.  The employee file is drawn from Staff: *)
(* employment dates around the boundaries of the months and of the         *)
(* six-month windows of the statutory bonus, full-time and part-time tax   *)
(* computation, 20 and 40 hours per week.                                  *)
(***************************************************************************)

StartDates ==
    {Date(Year - 1, 3, 1), Date(Year - 1, 9, 30), Date(Year - 1, 12, 30),
     Date(Year, 1, 1), Date(Year, 1, 17), Date(Year, 1, 31), Date(Year, 3, 31),
     Date(Year, 6, 30), Date(Year, 9, 30), Date(Year, 11, 14), Date(Year + 1, 1, 1)}

EndDates ==
    {NoDate, Date(Year - 1, 12, 31), Date(Year, 2, 14), Date(Year, 6, 30), Date(Year, 12, 11)}

HoursPerWeek == {20, 40}

\* the files of e1 (full time) and e2 (part time, paid by the work logs),
\* with the dates Employee._validate_dates accepts
Staff ==
    {Employee(IF tax_computation = "parttime" THEN "e2" ELSE "e1",
              start_date, end_date, hours_per_week, tax_computation,
              IF hours_per_week = 40 THEN "C/D #2" ELSE "A",
              IF tax_computation = "parttime" THEN 1200000 ELSE 2400000,
              IF tax_computation = "parttime" THEN 500000 ELSE 0) :
        start_date \in StartDates, end_date \in EndDates,
        hours_per_week \in HoursPerWeek, tax_computation \in {"single", "parttime"}}

InitMonth ==
    /\ employees \in {<<employee>> : employee \in
                         {e \in Staff : e.end_date = NoDate \/ e.start_date <= e.end_date}}
    /\ stored = {}
    /\ run = NoRun
    /\ TablesIdle
    /\ CalculatorIdle
    /\ ItemsIdle

\* the command `payments`, given once
RunPaymentsOnce(month) ==
    /\ run = NoRun
    /\ RunPayments(month)

NextMonth == \E month \in 1..12 : RunPaymentsOnce(month)

SpecMonth == InitMonth /\ [][NextMonth]_vars

(***************************************************************************)
(* Claims on one payment (SpecMonth)                                       *)
(***************************************************************************)

\* a run has been made: the employee, the period and the payment it wrote
Ran == run.status # ""
TheEmployee == employees[1]
ThePeriod == MonthPeriod(Year, run.month)
IsPaid == Ran /\ Len(run.paid) = 1
ThePayment == run.paid[1].payment
TheItems == [n \in Names |-> ValueIn(run.paid[1].items[n])]

\* the inclusive overlap of the employment with the period of the run
OverlapFirst == Max(TheEmployee.start_date, ThePeriod.start)
OverlapLast ==
    IF TheEmployee.end_date = NoDate THEN ThePeriod.end
    ELSE Min(TheEmployee.end_date, ThePeriod.end)
PeriodDays == ThePeriod.end - ThePeriod.start + 1
StartsAfter == TheEmployee.start_date > ThePeriod.end
LeavesBefore == TheEmployee.end_date # NoDate /\ TheEmployee.end_date < ThePeriod.start
CoversPeriod ==
    /\ TheEmployee.start_date <= ThePeriod.start
    /\ TheEmployee.end_date = NoDate \/ TheEmployee.end_date >= ThePeriod.end

\* C11: time_worked_in_period is 0 when the employee starts after the period
\* ends or leaves before it starts (and the run then pays nothing), exactly
\* 1.00 when the employment covers the whole period, and otherwise the
\* inclusive days of overlap over the inclusive days of the period, rounded
\* to two decimals, a value above 0 and at most 1; the payment carries it.
C11_TimeWorkedInPeriod ==
    Ran =>
        LET worked == Employee_time_worked_in_period(TheEmployee, ThePeriod)
        IN  /\ (StartsAfter \/ LeavesBefore) => (worked = 0 /\ run.paid = << >>)
            /\ CoversPeriod => worked = 100
            /\ ~(StartsAfter \/ LeavesBefore) =>
                   /\ worked = RoundHalfEven((OverlapLast - OverlapFirst + 1) * 100, PeriodDays)
                   /\ worked > 0 /\ worked <= 100
                   /\ IsPaid /\ ThePayment.time_worked = worked

\* an employee who joins and leaves inside the month is paid for a fraction
C11_Witness ==
    /\ IsPaid
    /\ TheEmployee.start_date > ThePeriod.start
    /\ TheEmployee.end_date # NoDate /\ TheEmployee.end_date <= ThePeriod.end
    /\ ThePayment.time_worked > 0 /\ ThePayment.time_worked < 100

\* the Mondays from first to last, both included: ordinal 1 is a Monday, so
\* the Mondays are the ordinals 7k + 1
MondaysWithin(first, last) == ((last - 1) \div 7) - ((first - 2) \div 7)

\* C12: the payment's number of Mondays is the number of Mondays in the
\* inclusive intersection of the employment and the payment period, the
\* period's end standing in for an open employment end; a month that holds
\* exactly 4 Mondays yields 4 for an employee who covers it, and a first or
\* last day of the intersection that is a Monday is counted.
C12_MondaysOfIntersection ==
    IsPaid =>
        /\ ThePayment.number_of_mondays = MondaysWithin(OverlapFirst, OverlapLast)
        /\ (CoversPeriod /\ MondaysWithin(ThePeriod.start, ThePeriod.end) = 4)
               => ThePayment.number_of_mondays = 4
        /\ Weekday(OverlapFirst) = 0 =>
               ThePayment.number_of_mondays = 1 + MondaysWithin(OverlapFirst + 1, OverlapLast)
        /\ Weekday(OverlapLast) = 0 =>
               ThePayment.number_of_mondays = 1 + MondaysWithin(OverlapFirst, OverlapLast - 1)

\* an open-ended employment that starts on a Monday inside the month
C12_Witness ==
    /\ IsPaid
    /\ TheEmployee.end_date = NoDate
    /\ TheEmployee.start_date > ThePeriod.start
    /\ Weekday(TheEmployee.start_date) = 0
    /\ ThePayment.number_of_mondays >= 1

(***************************************************************************)
(* SpecItems: two Items objects are added (line_item.py).  The operands    *)
(* are Items as the program holds them: the unset Items() of a Payment     *)
(* that was never filled, Items.zero(), the items of payments, and an      *)
(* Items with one line item unset.                                         *)
(***************************************************************************)

\* distinct amounts under every name: the position of the name, in euros
CountingItems ==
    [n \in Names |-> 100 * (CHOOSE i \in DOMAIN ItemNames : ItemNames[i] = n)]

ItemsSamples ==
    {Items,
     SetItems(Items_zero),
     SetItems(Historical1),
     SetItems(CountingItems),
     SetItems([Items_zero EXCEPT !["manual_adjustments"] = -5000,
                                 !["total_taxable_gross_emoluments"] = -5000,
                                 !["net_pay"] = -5000]),
     LineItems_as_items(EarlierPayment4.line_items, FALSE),
     LineItems_as_items(EarlierPayment4.line_items, TRUE),
     [SetItems(Historical1) EXCEPT !["reimbursements"] = None],
     [SetItems(CountingItems) EXCEPT !["tax_due"] = None]}

InitItems ==
    /\ operands \in [a : ItemsSamples, b : ItemsSamples]
    /\ added = NoSum
    /\ TablesIdle
    /\ CalculatorIdle
    /\ BatchIdle

\* a + b
AddItems ==
    /\ added = NoSum
    /\ added' = Items_plus(operands.a, operands.b)
    /\ UNCHANGED operands
    /\ UNCHANGED tblVars
    /\ UNCHANGED calcVars
    /\ UNCHANGED batchVars

NextItems == AddItems

SpecItems == InitItems /\ [][NextItems]_vars

\* C13 as stated: for all Items a and b the addition returns an Items with
\* (a + b).name = a.name + b.name for each of the 16 names, a + Items.zero()
\* equals a, and the operands are left as they were.
C13_AdditionOfAnyItems ==
    /\ [](added # NoSum =>
             /\ added.exc = ""
             /\ \A n \in Names :
                    added.items[n] = Some(ValueIn(operands.a[n]) + ValueIn(operands.b[n]))
             /\ operands.b = SetItems(Items_zero) => added.items = operands.a)
    /\ [][operands' = operands]_vars

\* C13, amended: for all Items a and b whose 16 line items are all set the
\* addition returns an Items with (a + b).name = a.name + b.name for each
\* name and a + Items.zero() equals a; when a line item of either operand is
\* unset the addition raises TypeError; the operands are left as they were.
C13_AdditionOfSetItems ==
    /\ [](added # NoSum =>
             IF IsSet(operands.a) /\ IsSet(operands.b)
             THEN /\ added.exc = ""
                  /\ \A n \in Names :
                         added.items[n]
                             = Some(ValueIn(operands.a[n]) + ValueIn(operands.b[n]))
                  /\ operands.b = SetItems(Items_zero) => added.items = operands.a
             ELSE added.exc = "TypeError")
    /\ [][operands' = operands]_vars

\* two different, fully set, non-zero Items have been added
C13_Witness ==
    /\ added # NoSum /\ added.exc = ""
    /\ operands.a # operands.b
    /\ operands.a # SetItems(Items_zero) /\ operands.b # SetItems(Items_zero)
    /\ added.items["net_pay"] # operands.a["net_pay"]

(***************************************************************************)
(* SpecHistory: the payroll of one month is run once for e4 on a payments  *)
(* directory that already holds payment files: files the program wrote     *)
(* (Items, no LineItems) and files of the earlier format (LineItems only), *)
(* of this year and the year before, of e4 and of another employee.        *)
(***************************************************************************)

\* February as the program wrote it for a month without pay: every item 0.00
ZeroPayment4 == PaymentFile(Employee4, Year, 2, SetItems(Items_zero), LineItems)

\* March as the program wrote it
WrittenPayment4 == PaymentFile(Employee4, Year, 3, SetItems(CountingItems), LineItems)

\* April in the earlier format, the deductions as large as the pay: net pay 0.00
EarlierZeroPayment4 ==
    PaymentFile(Employee4, Year, 4, Items,
                [LineItems EXCEPT !["basic_pay"] = 3688,
                                  !["total_taxable_gross_emoluments"] = 3688,
                                  !["income_tax"] = 1040,
                                  !["social_security_contribution_employee"] = 2648,
                                  !["social_security_contribution_employer"] = 2648,
                                  !["total_deductions"] = 3688,
                                  !["maternity_fund_contribution_employer"] = 80,
                                  !["net_tax_payment"] = 6416])

\* December of the year before, and a payment of another employee
LastYearPayment4 == PaymentFile(Employee4, Year - 1, 12, SetItems(CountingItems), LineItems)
OtherPayment1 == PaymentFile(Employee1, Year, 1, SetItems(Historical1), LineItems)

PaymentFiles ==
    {EarlierPayment4, ZeroPayment4, WrittenPayment4, EarlierZeroPayment4,
     LastYearPayment4, OtherPayment1}

InitHistory ==
    /\ employees = <<Employee4>>
    /\ stored \in SUBSET PaymentFiles
    /\ run = NoRun
    /\ TablesIdle
    /\ CalculatorIdle
    /\ ItemsIdle

SpecHistory == InitHistory /\ [][NextMonth]_vars

\* the stored payments of the employee and year of the run whose period
\* ends before the period of the run starts
EarlierPayments ==
    {f \in stored : /\ f.employee = TheEmployee.key
                    /\ f.year = Year
                    /\ f.end < ThePeriod.start}

\* the amount a stored payment holds under a name: its net pay and the
\* other amounts of its LineItems or of its Items
RECURSIVE SumOfPayments(_, _)
SumOfPayments(files, n) ==
    IF files = {} THEN 0
    ELSE LET f == CHOOSE x \in files : TRUE
             items == IF f.items = Items
                      THEN LineItems_as_items(f.line_items, f.part_time)
                      ELSE f.items
         IN  ValueIn(items[n]) + SumOfPayments(files \ {f}, n)

\* C14 as stated: the historical Items of a payment are the pointwise sum,
\* starting from zero, of the items of all of that employee's stored
\* payments of the same year whose period ends before the current period
\* starts, and the aggregation succeeds for every set of stored payments,
\* the empty one and those with payments whose net pay is zero included.
C14_HistoricalIsSumOfEarlierPayments ==
    Ran =>
        /\ run.status # "TypeError"
        /\ IsPaid =>
               \A n \in Names : run.paid[1].historical[n] = SumOfPayments(EarlierPayments, n)

(***************************************************************************)
(* Claims on the prior gross emoluments (SpecBatch)                        *)
(***************************************************************************)

\* the payment files of an employee for the months of the year
PaymentsOf(employee_key) == {f \in stored : f.employee = employee_key /\ f.year = Year}

C16_TaxModeSelectsOnePath ==
    IsPaid =>
        /\ ThePayment.part_time =>
               /\ TheItems["basic_pay_full_time"] = 0
               /\ TheItems["income_tax_full_time"] = 0
               /\ TheItems["income_tax_part_time"]
                      = 100 * RoundHalfEven(TheItems["total_taxable_gross_emoluments"]
                                                * PartTimeTaxRate, 10000)
        /\ ~ThePayment.part_time => TheItems["income_tax_part_time"] = 0
        /\ TheItems["income_tax_full_time"] = 0 \/ TheItems["income_tax_part_time"] = 0

\* what the table of a csv file yields for the category and the weekly wage
\* of the employee (in 1/10000 euro), and the weeks worked in the period
Applied(rows) ==
    CategoryRateTable_apply(CategoryRateTable_load(rows).entries,
                            TheEmployee.social_security_category,
                            Employee_weekly_wage(TheEmployee))
WeeksWorked == MondaysWithin(OverlapFirst, OverlapLast)

\* C17: social_security_contribution_employee is zero for a part-time taxed
\* employee and otherwise apply(category, weekly wage) of the ssc table times
\* the weeks worked, rounded to 2 decimals; maternity_fund_contribution_employer
\* is apply(category, weekly wage) of the maternity table times the weeks
\* worked, rounded to 2 decimals, for every employee.
C17_EmployeeContributions ==
    IsPaid =>
        /\ TheItems["social_security_contribution_employee"]
               = IF TheEmployee.tax_computation = "parttime" THEN 0
                 ELSE RoundHalfEven(Applied(SscFile).e4 * WeeksWorked, 100)
        /\ TheItems["maternity_fund_contribution_employer"]
               = RoundHalfEven(Applied(MaternityFile).e4 * WeeksWorked, 100)

\* a part-time taxed employee with a maternity fund contribution and no
\* social security contribution of their own
C17_Witness ==
    /\ IsPaid
    /\ TheEmployee.tax_computation = "parttime"
    /\ WeeksWorked > 0 /\ Applied(SscFile).e4 > 0
    /\ TheItems["social_security_contribution_employee"] = 0
    /\ TheItems["maternity_fund_contribution_employer"] > 0

\* C18 as stated: social_security_contribution_employer is apply(category,
\* weekly wage) of the ssc table times the weeks worked, rounded to 2
\* decimals, for every employee, part-time taxed employees included.
C18_EmployerContribution ==
    IsPaid =>
        TheItems["social_security_contribution_employer"]
            = RoundHalfEven(Applied(SscFile).e4 * WeeksWorked, 100)

\* the row of the statutory bonus file for the month of the run, the days
\* from the start of the employment to the end of the month, and the days
\* of the six months before the end of the month
BonusRows == {i \in DOMAIN StatutoryBonusFile : MonthIndex(StatutoryBonusFile[i].month) = run.month}
TheBonus == StatutoryBonusFile[CHOOSE i \in BonusRows : \A j \in BonusRows : i <= j].bonus
Elapsed == ThePeriod.end - TheEmployee.start_date
Window ==
    ThePeriod.end - SixMonthsBefore(Year, run.month, DaysInMonth(Year, run.month))

C21_MissingBonusRowReported ==
    (Ran /\ BonusRows = {}) =>
        ~(IsPaid /\ run.paid[1].items["statutory_bonus"] # None)

\* C23 as stated: count_days_between_dates is the absolute inclusive day
\* count of its two dates: it is symmetric in its arguments and counts both
\* end days, so two equal dates give 1. The dates are the start date of the
\* employee and the last day of the month that was run, the pair the
\* statutory bonus hands to the function.
C23_InclusiveDayCount ==
    Ran =>
        LET d1 == TheEmployee.start_date
            d2 == ThePeriod.end
        IN  /\ count_days_between_dates(d1, d2) = count_days_between_dates(d2, d1)
            /\ count_days_between_dates(d1, d2) = Cardinality(Min(d1, d2)..Max(d1, d2))
            /\ count_days_between_dates(d2, d2) = 1

(***************************************************************************)
(* Records that do not load (SpecRecords): the payroll of one month for    *)
(* e6, whose transaction directories hold files that pydantic rejects      *)
(* among the valid ones, and for e7, who has a manual adjustment file      *)
(* whose !money value yaml.load cannot construct.                          *)
(***************************************************************************)

RecordStaff ==
    {Employee(key, start_date, NoDate, 40, tax_computation, "A", 2400000, 0) :
        key \in {"e6", "e7"}, start_date \in StartDates,
        tax_computation \in {"single", "parttime"}}

InitRecords ==
    /\ employees \in {<<employee>> : employee \in RecordStaff}
    /\ stored = {}
    /\ run = NoRun
    /\ TablesIdle
    /\ CalculatorIdle
    /\ ItemsIdle

SpecRecords == InitRecords /\ [][NextMonth]_vars

\* the records of the employee and year of the run that load as valid
\* records and are dated within the period of the run
ValidWithin(store) ==
    SelectSeq(store, LAMBDA t : /\ t.employee = TheEmployee.key
                                /\ t.year = Year
                                /\ "raises" \notin DOMAIN t
                                /\ ThePeriod.start <= t.dated /\ t.dated <= ThePeriod.end)

\* C22 as stated: a transaction record that fails validation is logged and
\* skipped on its own: the payment of an employee employed in the month is
\* still produced, and its manual_adjustments, reimbursements and
\* basic_pay_part_time are the sums over exactly the valid records of the
\* employee that are dated within the period.
C22_InvalidRecordsSkipped ==
    (Ran /\ ~StartsAfter) =>
        /\ IsPaid
        /\ TheItems["manual_adjustments"] = SumValues(ValidWithin(Stores.manual_adjustments))
        /\ TheItems["reimbursements"] = SumValues(ValidWithin(Stores.reimbursements))
        /\ TheItems["basic_pay_part_time"] = SumWorked(ValidWithin(Stores.worklogs))

(***************************************************************************)
(* Income tax and projections (SpecTax): the payroll of one month for one  *)
(* employee, over salaries on both sides of the first band of the income   *)
(* tax table, with and without earnings and income tax of a previous       *)
(* employer, and with and without a payment of January already stored,     *)
(* written by the program or in the earlier format (10.40 of income tax).  *)
(***************************************************************************)

Salaries == {840000, 1788744, 1804800, 2400000}

TaxStaff ==
    {[Employee("e1", start_date, NoDate, hours_per_week, tax_computation, "A",
               gross_annual_salary, gross_annual_emoluments)
         EXCEPT !.prior_tax_information.income_tax = income_tax] :
        start_date \in {Date(Year - 1, 3, 1), Date(Year, 1, 17), Date(Year, 6, 30)},
        hours_per_week \in HoursPerWeek,
        tax_computation \in {"single", "parttime"},
        gross_annual_salary \in Salaries,
        gross_annual_emoluments \in {0, 500000},
        income_tax \in {0, 30000}}

InitTax ==
    /\ employees \in {<<employee>> : employee \in TaxStaff}
    /\ stored \in {{}, {OtherPayment1},
                   {PaymentFile(Employee1, Year, 1, SetItems(CountingItems), LineItems)},
                   {PaymentFile(Employee1, Year, 1, Items, EarlierPayment4.line_items)}}
    /\ run = NoRun
    /\ TablesIdle
    /\ CalculatorIdle
    /\ ItemsIdle

SpecTax == InitTax /\ [][NextMonth]_vars

\* C24 as stated: for an employee who is not part-time taxed,
\* income_tax_full_time is (projected annual income tax - year-to-date income
\* tax) x time worked / (time worked + months left in the year of the end
\* month of the period), rounded to 0 decimals (to the nearest euro, a tie to
\* the even euro as Money.round does), months left being max(0, 12 - month).
C24_RemainingTaxSmoothed ==
    (IsPaid /\ TheEmployee.tax_computation # "parttime") =>
        LET remaining == run.paid[1].projected
                         - run.paid[1].historical["income_tax_full_time"]
            months_left == Max(0, 12 - run.month)
        IN  TheItems["income_tax_full_time"] =
                100 * RoundHalfEven(remaining * ThePayment.time_worked,
                                    100 * (ThePayment.time_worked + 100 * months_left))

\* what projection_of gives for the payment of the run
TheProjection(name) == ValueIn(run.paid[1].projections[name])

\* the annual taxable amount of the payment of the run, and the progressive
\* table applied to it, in 1/10000 of a euro
TaxableAmount ==
    (TheItems["prior_gross_emoluments"] + run.paid[1].historical["prior_gross_emoluments"])
    + TheProjection("basic_pay_full_time")
    + (TheItems["manual_adjustments"] + run.paid[1].historical["manual_adjustments"])
    + TheProjection("statutory_bonus")
TaxLiability ==
    IncomeTaxTable_apply(PayrollCalculations(TableFiles, Stores).income_tax_table,
                         TaxableAmount).e4

\* the income tax a previous employer withheld, counted with the first
\* payment of the employee as the earnings from that employer are
PriorTaxOfPeriod ==
    IF ThePeriod.start <= TheEmployee.start_date /\ TheEmployee.start_date <= ThePeriod.end
    THEN TheEmployee.prior_tax_information.income_tax
    ELSE 0

\* C25 as stated: the projected annual income_tax_full_time of an employee
\* who is not part-time taxed is the progressive table applied to (prior
\* gross emoluments, current + year-to-date) + projected basic_pay_full_time
\* + (manual adjustments, current + year-to-date) + projected
\* statutory_bonus, minus the income tax deduction of the previous employer
\* (current + year-to-date), not below the tax withheld so far and rounded to
\* 0 decimals: income tax paid to a previous employer lowers the projection.
\* For a part-time taxed employee it is the year-to-date value.
C25_ProjectionLessPriorTax ==
    IsPaid =>
        LET historical == run.paid[1].historical
            deduction == PriorTaxOfPeriod + historical["prior_income_tax_deduction"]
        IN  IF TheEmployee.tax_computation = "parttime"
            THEN TheProjection("income_tax_full_time") = historical["income_tax_full_time"]
            ELSE TheProjection("income_tax_full_time") =
                     100 * RoundHalfEven(Max(TaxLiability - 100 * deduction,
                                             100 * historical["income_tax_full_time"]),
                                         10000)

\* the bonus rule for the employee of the run and one month of the year, as
\* a fraction of a cent: nothing without a row of the table for the month,
\* the bonus of the first such row when the employee started six months
\* before the end of the month or earlier, and otherwise that bonus times the
\* days since the start over the days of the six months
BonusOfMonth(month) ==
    LET rows == {i \in DOMAIN StatutoryBonusFile :
                    MonthIndex(StatutoryBonusFile[i].month) = month}
        bonus == StatutoryBonusFile[CHOOSE i \in rows : \A j \in rows : i <= j].bonus
        month_end == MonthEnd(Year, month)
        elapsed == month_end - TheEmployee.start_date
        window == month_end - SixMonthsBefore(Year, month, DaysInMonth(Year, month))
    IN  IF rows = {} THEN [num |-> 0, den |-> 1]
        ELSE IF elapsed >= window THEN [num |-> bonus, den |-> 1]
        ELSE [num |-> bonus * elapsed, den |-> window]

RECURSIVE BonusOfMonths(_)
BonusOfMonths(month) ==
    IF month > 12 THEN [num |-> 0, den |-> 1]
    ELSE AddFraction(BonusOfMonth(month), BonusOfMonths(month + 1))

\* C26: the projection of statutory_bonus is the bonus rule summed over the
\* month of the payment and every later month of the year, scaled by the
\* weekly hours over 40 and rounded to 2 decimals, plus the year-to-date
\* bonus; the projection of basic_pay_full_time is the value of the period
\* plus the year-to-date plus the monthly wage times the months left in the
\* year for a full-time employee, and the year-to-date only for a part-time
\* taxed one.
C26_Projections ==
    IsPaid =>
        LET historical == run.paid[1].historical
            hours == TheEmployee.hours_per_week
            shared == GCD(40, hours)
            bonus == BonusOfMonths(run.month)
        IN  /\ TheProjection("statutory_bonus") =
                   RoundHalfEven(bonus.num * (hours \div shared), bonus.den * (40 \div shared))
                   + historical["statutory_bonus"]
            /\ TheProjection("basic_pay_full_time") =
                   IF TheEmployee.tax_computation = "parttime"
                   THEN historical["basic_pay_full_time"]
                   ELSE TheItems["basic_pay_full_time"] + historical["basic_pay_full_time"]
                        + ThePayment.monthly_wage * Max(0, 12 - run.month)

\* a full-time employee in a month with a bonus that is pro-rated, with a
\* bonus and basic pay already paid this year and months still to come
C26_Witness ==
    /\ IsPaid
    /\ TheEmployee.tax_computation # "parttime"
    /\ BonusRows # {} /\ Elapsed > 0 /\ Elapsed < Window
    /\ run.month < 12
    /\ run.paid[1].historical["statutory_bonus"] > 0
    /\ run.paid[1].historical["basic_pay_full_time"] > 0
    /\ TheItems["statutory_bonus"] > 0
    /\ TheProjection("statutory_bonus")
           > TheItems["statutory_bonus"] + run.paid[1].historical["statutory_bonus"]
    /\ TheProjection("basic_pay_full_time")
           > TheItems["basic_pay_full_time"] + run.paid[1].historical["basic_pay_full_time"]

(***************************************************************************)
(* Claims on the dependencies of the registry of Payroll.execute           *)
(***************************************************************************)

\* the Calculator of the payment of the run, and the value_of and
\* projection_of calls the variant registered under a name makes
TheEnv ==
    [reg |-> PayrollCalculations(TableFiles, Stores), payment |-> ThePayment,
     historical |-> run.paid[1].historical]
DependsOn(call) ==
    LET calls == Calls(TheEnv, call.name, call.kind) \o CallsAfter(TheEnv, call.name, call.kind)
    IN  {calls[i] : i \in DOMAIN calls}

\* every chain of calls that starts at call ends within the given number of
\* steps; with 32 nodes a chain of more than 32 steps passes a node twice
RECURSIVE EndsWithin(_, _)
EndsWithin(call, steps) ==
    /\ steps > 0
    /\ \A next \in DependsOn(call) : EndsWithin(next, steps - 1)

\* C27: with the registry of Payroll.execute no value or projection depends
\* on itself, for a full-time and for a part-time taxed employee alike: the
\* run of an employed employee ends without error and leaves the values of
\* all 16 names set.  The value of income_tax_full_time asks for its own
\* projection and the projection of basic_pay_full_time for its own value,
\* and neither is asked for again further down.
C27_RegistryAcyclic ==
    (Ran /\ ~StartsAfter /\ ~LeavesBefore) =>
        /\ run.status = "done"
        /\ IsPaid
        /\ \A n \in Names : run.paid[1].items[n] # None
        /\ \A n \in Names : /\ EndsWithin(Value(n), 2 * Cardinality(Names))
                             /\ EndsWithin(Projection(n), 2 * Cardinality(Names))
        /\ TheEmployee.tax_computation # "parttime" =>
               /\ Projection("income_tax_full_time") \in DependsOn(Value("income_tax_full_time"))
               /\ Value("basic_pay_full_time") \in DependsOn(Projection("basic_pay_full_time"))

\* a full-time employee whose income tax is withheld from a projection
C27_Witness ==
    /\ IsPaid
    /\ TheEmployee.tax_computation # "parttime"
    /\ \A n \in Names : run.paid[1].items[n] # None
    /\ TheItems["income_tax_full_time"] > 0
    /\ TheProjection("income_tax_full_time") > TheItems["income_tax_full_time"]
    /\ TheProjection("basic_pay_full_time") > TheItems["basic_pay_full_time"]

(***************************************************************************)
(* Claims on the caches of a Calculator (SpecCalc)                         *)
(***************************************************************************)

\* what a Calculator that was asked nothing before gives for the name
FirstValue(c, name) == Calculator_value_of(Env(c), Calculator_init, name).st.values[name]
FirstProjection(c, name) ==
    Calculator_projection_of(Env(c), Calculator_init, name).st.projections[name]

\* C28: the cache entries of a Calculator are written once and do not
\* depend on the order of the requests: an entry that is set is what a fresh
\* Calculator of the same payment gives for that name, whatever was
\* requested before, and once set it never changes.
C28_CacheWriteOnce ==
    /\ [](\A c \in DOMAIN calc : \A n \in Names :
             /\ calc[c].values[n] # None => calc[c].values[n] = FirstValue(c, n)
             /\ calc[c].projections[n] # None => calc[c].projections[n] = FirstProjection(c, n))
    /\ [][\A c \in DOMAIN calc : \A n \in Names :
             /\ calc[c].values[n] # None => calc'[c].values[n] = calc[c].values[n]
             /\ calc[c].projections[n] # None =>
                    calc'[c].projections[n] = calc[c].projections[n]]_vars

\* two requests to one Calculator, the second one finding entries the first
\* one has set and setting further ones
C28_Witness ==
    \E c \in DOMAIN calc :
        /\ requests[c] = 2
        /\ calc[c].values["net_pay"] # None
        /\ calc[c].values["tax_due"] # None
        /\ calc[c].projections["income_tax_full_time"] # None
        /\ calc[c].compute_returns["income_tax_full_time"] = 1

(***************************************************************************)
(* Claims on the payments of December (SpecTax)                            *)
(***************************************************************************)

\* the payments of the run whose period ends in December, with time worked
DecemberPayments ==
    {i \in DOMAIN run.paid : /\ run.paid[i].payment.month = 12
                             /\ run.paid[i].payment.time_worked > 0}

\* statutory_bonus and basic_pay_full_time: the projection is the value of
\* the period plus the year-to-date total
ClosesPayItems(paid) ==
    /\ ValueIn(paid.projections["statutory_bonus"])
           = ValueIn(paid.items["statutory_bonus"]) + paid.historical["statutory_bonus"]
    /\ ValueIn(paid.projections["basic_pay_full_time"])
           = ValueIn(paid.items["basic_pay_full_time"]) + paid.historical["basic_pay_full_time"]

EarlierStored == {f \in stored : f.end < Date(Year, run.month, 1)}

\* what `payments` does for the month of the run from the given store
Again(store) == Payroll_payments(TableFiles, Stores, employees, Year, run.month, store)

\* C30: every payment a run produces has time worked above 0 and a
\* non-empty intersection of the employment with the period, so the divisor
\* of the income tax is not zero and the period count_mondays builds does
\* not start after its end; the payments of a run are what the stored
\* payments that end before the month alone give, so running the payroll
\* again for the same month, at once or after a revert of the month, yields
\* the same payments and leaves the same files.
C30_RerunYieldsSamePayments ==
    /\ [](run.status \notin {"", "reverted"} =>
             /\ \A i \in DOMAIN run.paid :
                    LET payment == run.paid[i].payment
                        employee == payment.employee
                        first == Max(employee.start_date, payment.period.start)
                        last == IF employee.end_date = NoDate THEN payment.period.end
                                ELSE Min(employee.end_date, payment.period.end)
                    IN  /\ payment.time_worked > 0
                        /\ first <= last
                        /\ payment.time_worked + 100 * months_left_in_year(payment.month) > 0
             /\ Again(EarlierStored).paid = run.paid
             /\ Again(stored).paid = run.paid
             /\ Again(stored).stored = stored
             /\ Again(Payroll_revert(stored, Year, run.month)).paid = run.paid
             /\ Again(Payroll_revert(stored, Year, run.month)).stored = stored)
    /\ [][(run.status \notin {"", "reverted"} /\ run'.status \notin {"", "reverted"}
            /\ run'.month = run.month)
              => (run'.paid = run.paid /\ stored' = stored)]_vars

\* a third run, for a month with payments stored before and after it, that
\* pays an employee who joined in the month and one paid earlier this year
C30_Witness ==
    /\ run.count = 3
    /\ \E f \in stored : f.month > run.month
    /\ \E i \in DOMAIN run.paid :
           run.paid[i].payment.time_worked > 0 /\ run.paid[i].payment.time_worked < 100
    /\ \E i \in DOMAIN run.paid : run.paid[i].historical["basic_pay_full_time"] > 0


====
